---- MODULE Spec2Model ----
(***************************************************************************)
(* Capture session cache and overlay pool of the Vely desktop capture      *)
(* utility: ScreenshotCache (screenshot_cache.rs), PermissionCache         *)
(* (permission_cache.rs), OverlayManager (overlay_manager.rs) and the      *)
(* SelectionOverlay drag state machine (selection_overlay.rs).             *)
(*                                                                         *)
(* Time is std::time::Instant read in whole seconds; `now` is the          *)
(* monotonic clock.  Every component has its own specification             *)
(* (SpecImage, SpecPerm, SpecOverlay, SpecSel) over the shared variables;  *)
(* SpecClamp studies the clamp of the capture rectangle as a function and  *)
(* SpecCoord the commands of main.rs that drive the caches.                *)
(***************************************************************************)
EXTENDS Integers, Sequences, FiniteSets, TLC

VARIABLES
    now,            \* Instant::now(), seconds
    ticks,          \* number of clock advances so far (bounded by MaxTicks)
    cache,          \* ScreenshotCache.cache : BoundsKey -> CachedCapture
    screen_info,    \* ScreenshotCache.screen_info : Option<ScreenInfo>
    img_last,       \* the last ScreenshotCache call: operation, key, result, rasterizer calls
    perm_cache,     \* PermissionCache.cache : Permission -> PermissionResult
    perm_last,      \* the last PermissionCache call: operation, kind, result, probe calls
    overlay_window, \* OverlayManager.overlay_window : Option<WebviewWindow>
    is_active,      \* OverlayManager.is_active
    last_used,      \* OverlayManager.last_used : Option<Instant>
    app_windows,    \* the windows the application holds, by label
    next_window,    \* identity of the next window the toolkit builds
    ov_last,        \* the last OverlayManager call: operation, result, create calls
    sel_state,      \* SelectionOverlay.state : SelectionState
    sel_inflight,   \* the bounds of the end_drag calls awaiting capture_region
    sel_last,       \* the last SelectionOverlay call: operation, result, capture calls
    geo_in,         \* the clamp under study: raw bounds, screen size, overflow checks
    geo_out,        \* its result, and the result of clamping that result again
    coord_last,     \* the last command of the capture path: operation, result, effects
    img_hits,       \* the keys of the cached entries served as a hit since their capture
    img_evicted,    \* the entries the last traced capture evicted: key, captured_at, hit
    img_wiped,      \* the keys that were fresh when the last traced clear removed them
    perm_wiped,     \* the kinds that were fresh when the last traced clear removed them
    img_lock,       \* the caller holding the Mutex of SharedScreenshotCache, 0 when free
    img_callers,    \* the parallel callers of capture_screen_area_optimized: position, result
    ix_call,        \* the call of start_interactive_selection: position, result
    ix_chan,        \* its mpsc channel: live Sender handles and queued results
    lk_holder,      \* who holds each process-wide Mutex, 0 when free
    lk_callers,     \* the parallel command invocations: command, position
    lk_poisoned     \* the process-wide Mutexes that a panic under the guard has poisoned

imgVars == <<cache, screen_info, img_last>>
permVars == <<perm_cache, perm_last>>
ovVars == <<overlay_window, is_active, last_used, app_windows, next_window, ov_last>>
selVars == <<sel_state, sel_inflight, sel_last>>
geoVars == <<geo_in, geo_out>>
coordVars == <<coord_last>>
histVars == <<img_hits, img_evicted, img_wiped, perm_wiped>>
concVars == <<img_lock, img_callers>>
ixVars == <<ix_call, ix_chan>>
lockVars == <<lk_holder, lk_callers, lk_poisoned>>
vars == <<now, ticks, cache, screen_info, img_last, perm_cache, perm_last,
          overlay_window, is_active, last_used, app_windows, next_window,
          ov_last, sel_state, sel_inflight, sel_last, geo_in, geo_out, coord_last,
          img_hits, img_evicted, img_wiped, perm_wiped, img_lock, img_callers,
          ix_call, ix_chan, lk_holder, lk_callers, lk_poisoned>>

(***************************************************************************)
(* Bounds of the model.                                                    *)
(***************************************************************************)
MaxTicks == 5
MaxInflight == 2
MaxWindows == 2
MaxCoordTicks == 1
MaxAgeTicks == 2
MaxSweepTicks == 1
MaxClearTicks == 1
MaxCallers == 2
MaxLazyTicks == 1
MaxPoisonTicks == 1

(***************************************************************************)
(* Program constants.                                                      *)
(***************************************************************************)
CacheTtl == 30
ScreenInfoTtl == 60
MaxCacheSize == 52428800
MinCaptureSize == 10
DefaultTtl == 300
IdleThreshold == 300
MinSelectionSize == 5

MiB == 1048576

Min(a, b) == IF a < b THEN a ELSE b
Max(a, b) == IF a > b THEN a ELSE b
Abs(a) == IF a < 0 THEN -a ELSE a

\* Instant::elapsed(): time since the instant t
Elapsed(t) == now - t

\* The clock advances by d seconds.  Every specification steps its clock by
\* half of the duration its component compares against, so that ages below,
\* equal to and above that duration all occur.
Tick(d) ==
    /\ ticks < MaxTicks
    /\ now' = now + d
    /\ ticks' = ticks + 1
    /\ UNCHANGED <<imgVars, permVars, ovVars, selVars, geoVars, coordVars, histVars,
                   concVars,
                   ixVars, lockVars>>

(***************************************************************************)
(* ScreenshotCache                                                         *)
(***************************************************************************)

\* The raw rectangles the callers ask for.  K2 has its origin left of the
\* screen, KSmall is below the minimum capture size.
K1 == [x |-> 0, y |-> 0, width |-> 100, height |-> 50]
K2 == [x |-> -5, y |-> 0, width |-> 100, height |-> 50]
K3 == [x |-> 10, y |-> 10, width |-> 200, height |-> 100]
KSmall == [x |-> 0, y |-> 0, width |-> 8, height |-> 8]
RequestBounds == {K1, K2, K3, KSmall}

\* A rectangle wider than the screen
KWide == [x |-> 0, y |-> 0, width |-> 2000, height |-> 100]

\* What screenshots::Screen::all() can answer: an error, no screen, or the
\* first screen's display_info.
Screen1 == [status |-> "ok", width |-> 1920, height |-> 1080]
ScreenQueries == {[status |-> "error", width |-> 0, height |-> 0],
                  [status |-> "empty", width |-> 0, height |-> 0],
                  Screen1}

\* Encoded payloads ("data:image/png;base64,..." strings) the rasterizer and
\* the PNG encoder can produce: an identity and the string's length.
Payloads == {[id |-> 1, len |-> 20 * MiB],
             [id |-> 2, len |-> 30 * MiB],
             [id |-> 3, len |-> 60 * MiB]}

NoData == [id |-> 0, len |-> 0]
NoBounds == [x |-> 0, y |-> 0, width |-> 0, height |-> 0]

\* screen.capture_area / image.to_png outcomes
RasterOutcomes == {[status |-> "capture_failed", data |-> NoData],
                   [status |-> "png_failed", data |-> NoData]}
                  \cup {[status |-> "ok", data |-> p] : p \in Payloads}

BoundsKeyFrom_Clamped(bounds) ==
    [x |-> Max(bounds.x, 0), y |-> Max(bounds.y, 0),
     width |-> bounds.width, height |-> bounds.height]

\* impl From<CaptureBounds> for BoundsKey: the raw rectangle, field by field
BoundsKeyFrom(bounds) ==
    [x |-> bounds.x, y |-> bounds.y, width |-> bounds.width, height |-> bounds.height]

\* u32 subtraction `dim - (safe as u32)`, where safe is an i32 not above dim.
\* A negative safe casts to 2^32 + safe, so the subtraction underflows: it
\* panics when overflow checks are on and wraps to dim - safe otherwise.
SubOriginU32(dim, safe, checks) ==
    IF safe >= 0 THEN [panic |-> FALSE, value |-> dim - safe]
    ELSE IF checks THEN [panic |-> TRUE, value |-> 0]
    ELSE [panic |-> FALSE, value |-> dim - safe]

ClampBounds_OneBased(bounds, screen, checks) ==
    LET safe_x == Min(Max(bounds.x, 1) - 1, screen.width - bounds.width)
        safe_y == Min(Max(bounds.y, 1) - 1, screen.height - bounds.height)
        room_w == SubOriginU32(screen.width, safe_x, checks)
        room_h == SubOriginU32(screen.height, safe_y, checks)
    IN  IF room_w.panic \/ room_h.panic
        THEN [status |-> "panic", x |-> 0, y |-> 0, width |-> 0, height |-> 0]
        ELSE LET safe_width == Min(bounds.width, room_w.value)
                 safe_height == Min(bounds.height, room_h.value)
             IN  IF safe_width < MinCaptureSize \/ safe_height < MinCaptureSize
                 THEN [status |-> "too_small", x |-> safe_x, y |-> safe_y,
                       width |-> safe_width, height |-> safe_height]
                 ELSE [status |-> "ok", x |-> safe_x, y |-> safe_y,
                       width |-> safe_width, height |-> safe_height]

ClampBounds_NoMinimum(bounds, screen, checks) ==
    LET safe_x == Min(Max(bounds.x, 0), screen.width - bounds.width)
        safe_y == Min(Max(bounds.y, 0), screen.height - bounds.height)
        room_w == SubOriginU32(screen.width, safe_x, checks)
        room_h == SubOriginU32(screen.height, safe_y, checks)
    IN  IF room_w.panic \/ room_h.panic
        THEN [status |-> "panic", x |-> 0, y |-> 0, width |-> 0, height |-> 0]
        ELSE [status |-> "ok", x |-> safe_x, y |-> safe_y,
              width |-> Min(bounds.width, room_w.value),
              height |-> Min(bounds.height, room_h.value)]

\* The clamp of capture_with_reused_buffer (lines 93-101): safe_x, safe_y,
\* safe_width, safe_height and the minimum-size test.
ClampBounds(bounds, screen, checks) ==
    LET safe_x == Min(Max(bounds.x, 0), screen.width - bounds.width)
        safe_y == Min(Max(bounds.y, 0), screen.height - bounds.height)
        room_w == SubOriginU32(screen.width, safe_x, checks)
        room_h == SubOriginU32(screen.height, safe_y, checks)
    IN  IF room_w.panic \/ room_h.panic
        THEN [status |-> "panic", x |-> 0, y |-> 0, width |-> 0, height |-> 0]
        ELSE LET safe_width == Min(bounds.width, room_w.value)
                 safe_height == Min(bounds.height, room_h.value)
             IN  IF safe_width < MinCaptureSize \/ safe_height < MinCaptureSize
                 THEN [status |-> "too_small", x |-> safe_x, y |-> safe_y,
                       width |-> safe_width, height |-> safe_height]
                 ELSE [status |-> "ok", x |-> safe_x, y |-> safe_y,
                       width |-> safe_width, height |-> safe_height]

\* get_total_cache_size
RECURSIVE SumSizes(_, _)
SumSizes(c, keys) ==
    IF keys = {} THEN 0
    ELSE LET k == CHOOSE k \in keys : TRUE
         IN  c[k].size_bytes + SumSizes(c, keys \ {k})

GetTotalCacheSize(c) == SumSizes(c, DOMAIN c)

RemoveKeys(c, keys) == [k \in (DOMAIN c) \ keys |-> c[k]]

InsertKey(c, key, entry) ==
    [k \in (DOMAIN c) \cup {key} |-> IF k = key THEN entry ELSE c[k]]

\* The orders in which evict_oldest_entries can visit the entries:
\* sort_by_key(captured_at) over the map's iteration order, so entries of
\* equal captured_at come in any order.
Perms(S) ==
    {s \in [1..Cardinality(S) -> S] : \A i, j \in 1..Cardinality(S) : i # j => s[i] # s[j]}

SortedOrders_Unsorted(c) == Perms(DOMAIN c)

SortedOrders(c) ==
    {s \in Perms(DOMAIN c) :
        \A i, j \in 1..Len(s) : i < j => c[s[i]].captured_at <= c[s[j]].captured_at}

RECURSIVE PrefixSize(_, _, _)
PrefixSize(c, s, n) == IF n = 0 THEN 0 ELSE c[s[n]].size_bytes + PrefixSize(c, s, n - 1)

\* The keys evict_oldest_entries removes along the order s: the loop pushes
\* the key, adds its size and stops once freed_space >= needed_space.
KeysToRemove(c, s, needed_space) ==
    LET stops == {n \in 1..Len(s) : PrefixSize(c, s, n) >= needed_space}
        last == IF stops = {} THEN Len(s)
                ELSE CHOOSE n \in stops : \A m \in stops : n <= m
    IN  {s[i] : i \in 1..last}

\* evict_oldest_entries: the caches it can leave
EvictOldestEntries(c, needed_space) ==
    {RemoveKeys(c, KeysToRemove(c, s, needed_space)) : s \in SortedOrders(c)}

AddToCache_FreesOverflow(c, key, data) ==
    LET size == data.len
        entry == [data |-> data, captured_at |-> now, size_bytes |-> size]
        pool == IF GetTotalCacheSize(c) + size > MaxCacheSize
                THEN EvictOldestEntries(c, GetTotalCacheSize(c) + size - MaxCacheSize)
                ELSE {c}
    IN  {InsertKey(e, key, entry) : e \in pool}

\* add_to_cache: the caches it can leave
AddToCache(c, key, data) ==
    LET size == data.len
        entry == [data |-> data, captured_at |-> now, size_bytes |-> size]
        pool == IF GetTotalCacheSize(c) + size > MaxCacheSize
                THEN EvictOldestEntries(c, size)
                ELSE {c}
    IN  {InsertKey(e, key, entry) : e \in pool}

\* No count returned: the operation's return type is ()
NoCount == [some |-> FALSE, count |-> 0]

\* Option<ScreenInfo>::None
NoScreenInfo == [some |-> FALSE, width |-> 0, height |-> 0, cached_at |-> 0]

\* get_screen_info on the answer q of Screen::all()
GetScreenInfo(q) ==
    IF q.status = "error"
    THEN [kind |-> "Failed to get screen info", info |-> NoScreenInfo]
    ELSE IF q.status = "empty"
    THEN [kind |-> "No screens available", info |-> NoScreenInfo]
    ELSE [kind |-> "ok",
          info |-> [some |-> TRUE, width |-> q.width, height |-> q.height, cached_at |-> now]]

\* capture_with_reused_buffer on the answer q of Screen::all() and the
\* outcome shot of capture_area and to_png: the result and the number of
\* capture_area calls
CaptureWithReusedBuffer(bounds, q, shot, checks) ==
    IF q.status = "error"
    THEN [kind |-> "Failed to access screens", data |-> NoData, raster |-> 0]
    ELSE IF q.status = "empty" THEN [kind |-> "No screens available", data |-> NoData, raster |-> 0]
    ELSE LET safe == ClampBounds(bounds, q, checks)
         IN  IF safe.status = "panic" THEN [kind |-> "panic", data |-> NoData, raster |-> 0]
             ELSE IF safe.status = "too_small"
             THEN [kind |-> "Capture area too small after adjustment", data |-> NoData, raster |-> 0]
             ELSE IF shot.status = "capture_failed"
             THEN [kind |-> "Screen capture failed", data |-> NoData, raster |-> 1]
             ELSE IF shot.status = "png_failed"
             THEN [kind |-> "PNG encoding failed", data |-> NoData, raster |-> 1]
             ELSE [kind |-> "ok", data |-> shot.data, raster |-> 1]

InitImage ==
    /\ cache = << >>
    /\ screen_info = NoScreenInfo
    /\ img_last = [op |-> "none", bounds |-> NoBounds, key |-> NoBounds, kind |-> "none",
                   data |-> NoData, raster |-> 0, check |-> "none", evicted |-> {},
                   stats |-> <<0, 0, 0>>, reported |-> NoCount, removed |-> 0, seq |-> 0]
    /\ img_hits = {}
    /\ img_evicted = {}
    /\ img_wiped = {}

\* The record of a ScreenshotCache call: what was called, the key it used
\* (and, for capture_optimized, the rectangle it was asked for), what it
\* returned (kind "ok" with its data, or the error message), how many times
\* it called screen.capture_area, what the cache check found ("hit",
\* "expired", "absent"), which keys add_to_cache evicted; seq flips on
\* every call.  reported is the count a call hands back to its caller (no
\* operation of the cache returns one) and removed is the local count that
\* cleanup_expired prints.
ImgCall(op, key, kind, data, raster) ==
    [op |-> op, bounds |-> NoBounds, key |-> key, kind |-> kind, data |-> data,
     raster |-> raster, check |-> "none", evicted |-> {}, stats |-> <<0, 0, 0>>,
     reported |-> NoCount, removed |-> 0, seq |-> 1 - img_last.seq]

CacheFresh_Inverted(cached) == Elapsed(cached.captured_at) > CacheTtl

CacheFresh_Inclusive(cached) == Elapsed(cached.captured_at) <= CacheTtl

\* The test of the cache check: cached.captured_at.elapsed() < self.cache_ttl
CacheFresh(cached) == Elapsed(cached.captured_at) < CacheTtl

\* What get_screen_info and capture_with_reused_buffer can answer for
\* bounds, over every answer of the screen, the rasterizer and the encoder
\* and both settings of the build's overflow checks.
ScreenInfoOutcomes == {GetScreenInfo(q) : q \in ScreenQueries}

CaptureOutcomesOf ==
    [bounds \in RequestBounds \cup {KWide} |->
        {CaptureWithReusedBuffer(bounds, q, shot, checks) :
            q \in ScreenQueries, shot \in RasterOutcomes, checks \in BOOLEAN}]

CaptureOutcomes(bounds) == CaptureOutcomesOf[bounds]

CaptureAndStore_InsertOnFailure(bounds, bounds_key, c, check) ==
    \E image \in CaptureOutcomes(bounds) :
        /\ cache' \in AddToCache(c, bounds_key, image.data)
        /\ img_last' = [ImgCall("capture", bounds_key, image.kind, image.data, image.raster)
                          EXCEPT !.evicted = (DOMAIN c) \ (DOMAIN cache'),
                                 !.check = check, !.bounds = bounds]

\* Steps 3 and 4 of capture_optimized on the cache c left by step 1
CaptureAndStore(bounds, bounds_key, c, check) ==
    \E image \in CaptureOutcomes(bounds) :
        IF image.kind = "ok"
        THEN /\ cache' \in AddToCache(c, bounds_key, image.data)
             /\ img_last' = [ImgCall("capture", bounds_key, "ok", image.data, image.raster)
                               EXCEPT !.evicted = (DOMAIN c) \ (DOMAIN cache'),
                                      !.check = check, !.bounds = bounds]
        ELSE /\ cache' = c
             /\ img_last' = [ImgCall("capture", bounds_key, image.kind, NoData, image.raster)
                               EXCEPT !.check = check, !.bounds = bounds]

\* Steps 2 to 4 of capture_optimized on the cache c left by step 1
CaptureMiss(bounds, bounds_key, c, check) ==
    LET refresh == \/ ~screen_info.some
                   \/ Elapsed(screen_info.cached_at) > ScreenInfoTtl
    IN  IF refresh
        THEN \E info \in ScreenInfoOutcomes :
                IF info.kind # "ok"
                THEN /\ cache' = c
                     /\ UNCHANGED screen_info
                     /\ img_last' = [ImgCall("capture", bounds_key, info.kind, NoData, 0)
                                       EXCEPT !.check = check, !.bounds = bounds]
                ELSE /\ screen_info' = info.info
                     /\ CaptureAndStore(bounds, bounds_key, c, check)
        ELSE /\ UNCHANGED screen_info
             /\ CaptureAndStore(bounds, bounds_key, c, check)

ServeHit_Touch(c, key) == [c EXCEPT ![key].captured_at = now]

\* The cache after capture_optimized has served key from it: the hit path
\* clones cached.data and writes nothing.
ServeHit(c, key) == c

\* ScreenshotCache::capture_optimized: what it does to the cache, the
\* screen info and the record of the call
CaptureOptimized(bounds) ==
    LET bounds_key == BoundsKeyFrom(bounds)
        present == bounds_key \in DOMAIN cache
        hit == present /\ CacheFresh(cache[bounds_key])
        check == IF hit THEN "hit" ELSE IF present THEN "expired" ELSE "absent"
        cache1 == IF present /\ ~hit THEN RemoveKeys(cache, {bounds_key}) ELSE cache
    IN  IF hit
           THEN /\ img_last' = [ImgCall("capture", bounds_key, "ok", cache[bounds_key].data, 0)
                                  EXCEPT !.check = check, !.bounds = bounds]
                /\ cache' = ServeHit(cache, bounds_key)
                /\ UNCHANGED screen_info
           ELSE CaptureMiss(bounds, bounds_key, cache1, check)

\* The command capture_screen_area_optimized: it locks the shared cache and
\* calls capture_optimized; an error comes back as a CaptureResult with
\* success = false and the message.
CaptureScreenAreaOptimized(bounds) ==
    /\ CaptureOptimized(bounds)
    /\ UNCHANGED <<now, ticks, concVars, ixVars, lockVars, histVars, geoVars, coordVars, permVars, ovVars, selVars>>

\* The same command with its accesses traced: img_hits gains the key of a
\* hit and loses the keys whose entries were replaced or removed, and
\* img_evicted is what add_to_cache evicted, with the age and the hit
\* status each entry had.
CaptureScreenAreaOptimizedTraced(bounds) ==
    /\ CaptureOptimized(bounds)
    /\ img_hits' = IF img_last'.check = "hit"
                   THEN img_hits \cup {img_last'.key}
                   ELSE (img_hits \cap DOMAIN cache') \ {img_last'.key}
    /\ img_evicted' = {[key |-> k, captured_at |-> cache[k].captured_at,
                        hit |-> k \in img_hits] : k \in img_last'.evicted}
    /\ UNCHANGED <<now, ticks, concVars, ixVars, lockVars, img_wiped, perm_wiped, geoVars, coordVars, permVars,
                   ovVars, selVars>>

\* ScreenshotCache::clear_cache
ClearCache ==
    /\ cache' = << >>
    /\ img_last' = ImgCall("clear", NoBounds, "ok", NoData, 0)
    /\ UNCHANGED <<now, ticks, concVars, ixVars, lockVars, histVars, geoVars, coordVars, screen_info, permVars, ovVars, selVars>>

\* ScreenshotCache::get_cache_stats
GetCacheStats ==
    /\ img_last' = [ImgCall("stats", NoBounds, "ok", NoData, 0) EXCEPT
                      !.stats = <<Cardinality(DOMAIN cache), GetTotalCacheSize(cache),
                                  Cardinality({k \in DOMAIN cache :
                                      Elapsed(cache[k].captured_at) > CacheTtl})>>]
    /\ UNCHANGED <<now, ticks, concVars, ixVars, lockVars, histVars, geoVars, coordVars, cache, screen_info, permVars, ovVars, selVars>>

\* ScreenshotCache::cleanup_expired; it returns nothing, `removed` is only printed
CleanupExpired ==
    /\ cache' = RemoveKeys(cache, {k \in DOMAIN cache : ~(now - cache[k].captured_at < CacheTtl)})
    /\ img_last' = [ImgCall("cleanup", NoBounds, "ok", NoData, 0) EXCEPT
                      !.removed = Cardinality(DOMAIN cache) - Cardinality(DOMAIN cache')]
    /\ UNCHANGED <<now, ticks, concVars, ixVars, lockVars, histVars, geoVars, coordVars, screen_info, permVars, ovVars, selVars>>

NextImage ==
    \/ Tick(CacheTtl \div 2)
    \/ \E b \in RequestBounds : CaptureScreenAreaOptimized(b)
    \/ ClearCache
    \/ GetCacheStats
    \/ CleanupExpired

\* The parallel callers of capture_screen_area_optimized and the rectangles
\* they ask for
Callers == 1..MaxCallers
ConcBounds == {K1, K3}

\* A caller that has not called yet.  overlap tells whether another call
\* was in progress when this one was made.
IdleCaller == [pc |-> "idle", bounds |-> NoBounds, check |-> "none", kind |-> "none",
               data |-> NoData, raster |-> 0, overlap |-> FALSE]

InitConc ==
    /\ img_lock = 0
    /\ img_callers = [c \in Callers |-> IdleCaller]

\* Caller c invokes capture_screen_area_optimized(b)
CallCapture(c, b) ==
    /\ img_callers[c].pc = "idle"
    /\ img_callers' = [img_callers EXCEPT ![c] =
           [IdleCaller EXCEPT !.pc = "waiting", !.bounds = b,
                              !.overlap = \E d \in Callers \ {c} :
                                  img_callers[d].pc \in {"waiting", "lookup", "capture"}]]
    /\ UNCHANGED <<now, ticks, img_lock, ixVars, lockVars, histVars, geoVars, coordVars, imgVars, permVars,
                   ovVars, selVars>>

AcquireCacheLock_NoLock(c) ==
    /\ img_callers[c].pc = "waiting"
    /\ img_lock' = c
    /\ img_callers' = [img_callers EXCEPT ![c].pc = "lookup"]
    /\ UNCHANGED <<now, ticks, ixVars, lockVars, histVars, geoVars, coordVars, imgVars, permVars, ovVars,
                   selVars>>

\* cache.lock().unwrap(): caller c gets the Mutex when nobody holds it
AcquireCacheLock(c) ==
    /\ img_callers[c].pc = "waiting"
    /\ img_lock = 0
    /\ img_lock' = c
    /\ img_callers' = [img_callers EXCEPT ![c].pc = "lookup"]
    /\ UNCHANGED <<now, ticks, ixVars, lockVars, histVars, geoVars, coordVars, imgVars, permVars, ovVars,
                   selVars>>

\* Step 1 of capture_optimized by caller c: a hit returns, which drops the
\* guard; otherwise an expired entry is removed and the call goes on.
LookupUnderLock(c) ==
    /\ img_callers[c].pc = "lookup"
    /\ UNCHANGED <<now, ticks, ixVars, lockVars, histVars, geoVars, coordVars, screen_info, permVars, ovVars,
                   selVars>>
    /\ LET bounds == img_callers[c].bounds
           bounds_key == BoundsKeyFrom(bounds)
           present == bounds_key \in DOMAIN cache
           hit == present /\ CacheFresh(cache[bounds_key])
           check == IF hit THEN "hit" ELSE IF present THEN "expired" ELSE "absent"
       IN  IF hit
           THEN /\ img_last' = [ImgCall("capture", bounds_key, "ok", cache[bounds_key].data, 0)
                                  EXCEPT !.check = check, !.bounds = bounds]
                /\ cache' = ServeHit(cache, bounds_key)
                /\ img_callers' = [img_callers EXCEPT ![c].pc = "done",
                                                      ![c].check = check,
                                                      ![c].kind = "ok",
                                                      ![c].data = cache[bounds_key].data]
                /\ img_lock' = IF img_lock = c THEN 0 ELSE img_lock
           ELSE /\ cache' = IF present THEN RemoveKeys(cache, {bounds_key}) ELSE cache
                /\ img_callers' = [img_callers EXCEPT ![c].pc = "capture",
                                                      ![c].check = check]
                /\ UNCHANGED <<img_last, img_lock>>

\* Steps 2 to 4 of capture_optimized by caller c, and the return of the
\* command, which drops the guard
CaptureUnderLock(c) ==
    /\ img_callers[c].pc = "capture"
    /\ UNCHANGED <<now, ticks, ixVars, lockVars, histVars, geoVars, coordVars, permVars, ovVars, selVars>>
    /\ CaptureMiss(img_callers[c].bounds, BoundsKeyFrom(img_callers[c].bounds), cache,
                   img_callers[c].check)
    /\ img_callers' = [img_callers EXCEPT ![c].pc = "done",
                                          ![c].kind = img_last'.kind,
                                          ![c].data = img_last'.data,
                                          ![c].raster = img_last'.raster]
    /\ img_lock' = IF img_lock = c THEN 0 ELSE img_lock

NextConc ==
    \/ \E c \in Callers, b \in ConcBounds : CallCapture(c, b)
    \/ \E c \in Callers : AcquireCacheLock(c)
    \/ \E c \in Callers : LookupUnderLock(c)
    \/ \E c \in Callers : CaptureUnderLock(c)

\* The capture command alone, with its accesses traced
NextAge ==
    \/ (ticks < MaxAgeTicks /\ Tick(CacheTtl \div 2))
    \/ \E b \in RequestBounds : CaptureScreenAreaOptimizedTraced(b)

(***************************************************************************)
(* PermissionCache                                                         *)
(***************************************************************************)

\* enum Permission
Permissions == {"ScreenRecording", "Accessibility", "FullDiskAccess"}

\* check_permission_native_sync: every arm of the match answers Ok(true)
CheckPermissionNativeSync(perm) ==
    CASE perm = "ScreenRecording" -> [kind |-> "ok", granted |-> TRUE]
      [] perm = "Accessibility" -> [kind |-> "ok", granted |-> TRUE]
      [] perm = "FullDiskAccess" -> [kind |-> "ok", granted |-> TRUE]

InitPerm ==
    /\ perm_cache = << >>
    /\ perm_last = [op |-> "none", perm |-> "none", kind |-> "none", granted |-> FALSE,
                    probes |-> 0, check |-> "none", stats |-> <<0, 0>>,
                    reported |-> NoCount, removed |-> 0, seq |-> 0]
    /\ perm_wiped = {}

\* The record of a PermissionCache call: what was called, what it returned
\* how many times it ran the native probe and what the cache check found
\* ("hit", "expired", "absent"); seq flips on every call.  reported is the
\* count a call hands back to its caller (no operation returns one) and
\* removed is the local count that cleanup_expired prints.
PermCall(op, perm, kind, granted, probes) ==
    [op |-> op, perm |-> perm, kind |-> kind, granted |-> granted, probes |-> probes,
     check |-> "none", stats |-> <<0, 0>>, reported |-> NoCount, removed |-> 0,
     seq |-> 1 - perm_last.seq]

PermFresh_Inclusive(cached) == now <= cached.expires_at

\* The test of the cache check: Instant::now() < cached.expires_at
PermFresh(cached) == now < cached.expires_at

CheckPermissionCachedOn_Partial(pc, perm) ==
    IF perm \in DOMAIN pc /\ PermFresh(pc[perm])
    THEN [cache |-> pc, kind |-> "ok", granted |-> pc[perm].granted, probes |-> 0,
          check |-> "hit"]
    ELSE LET native == CheckPermissionNativeSync(perm)
             check == IF perm \in DOMAIN pc THEN "expired" ELSE "absent"
         IN  [cache |-> [k \in (DOMAIN pc) \cup {perm} |->
                            IF k # perm THEN pc[k]
                            ELSE IF perm \in DOMAIN pc
                            THEN [pc[perm] EXCEPT !.granted = native.granted,
                                                  !.expires_at = now + DefaultTtl]
                            ELSE [granted |-> native.granted, checked_at |-> now,
                                  expires_at |-> now + DefaultTtl]],
              kind |-> "ok", granted |-> native.granted, probes |-> 1,
              check |-> check]

\* PermissionCache::check_permission_cached on the cache pc: the cache it
\* leaves, its result, the number of native probes and what the cache
\* check found
CheckPermissionCachedOn(pc, perm) ==
    IF perm \in DOMAIN pc /\ PermFresh(pc[perm])
    THEN [cache |-> pc, kind |-> "ok", granted |-> pc[perm].granted, probes |-> 0,
          check |-> "hit"]
    ELSE LET native == CheckPermissionNativeSync(perm)
             check == IF perm \in DOMAIN pc THEN "expired" ELSE "absent"
         IN  IF native.kind # "ok"
             THEN [cache |-> pc, kind |-> native.kind, granted |-> FALSE, probes |-> 1,
                   check |-> check]
             ELSE [cache |-> [k \in (DOMAIN pc) \cup {perm} |->
                                 IF k = perm
                                 THEN [granted |-> native.granted, checked_at |-> now,
                                       expires_at |-> now + DefaultTtl]
                                 ELSE pc[k]],
                   kind |-> "ok", granted |-> native.granted, probes |-> 1,
                   check |-> check]

\* A call of check_permission_cached on the shared cache
CheckPermissionCached(perm) ==
    /\ UNCHANGED <<now, ticks, concVars, ixVars, lockVars, histVars, geoVars, coordVars, imgVars, ovVars, selVars>>
    /\ LET r == CheckPermissionCachedOn(perm_cache, perm)
       IN  /\ perm_cache' = r.cache
           /\ perm_last' = [PermCall("check", perm, r.kind, r.granted, r.probes)
                              EXCEPT !.check = r.check]

\* PermissionCache::clear_cache
PermClearCache ==
    /\ perm_cache' = << >>
    /\ perm_last' = PermCall("clear", "none", "ok", FALSE, 0)
    /\ UNCHANGED <<now, ticks, concVars, ixVars, lockVars, histVars, geoVars, coordVars, imgVars, ovVars, selVars>>

PermGetCacheStats_Sweeps ==
    /\ perm_cache' = [k \in {j \in DOMAIN perm_cache : now < perm_cache[j].expires_at} |->
                         perm_cache[k]]
    /\ perm_last' = [PermCall("stats", "none", "ok", FALSE, 0) EXCEPT
                       !.stats = <<Cardinality(DOMAIN perm_cache),
                                   Cardinality({k \in DOMAIN perm_cache :
                                       now >= perm_cache[k].expires_at})>>]
    /\ UNCHANGED <<now, ticks, concVars, ixVars, lockVars, histVars, geoVars, coordVars, imgVars, ovVars, selVars>>

\* PermissionCache::get_cache_stats
PermGetCacheStats ==
    /\ perm_last' = [PermCall("stats", "none", "ok", FALSE, 0) EXCEPT
                       !.stats = <<Cardinality(DOMAIN perm_cache),
                                   Cardinality({k \in DOMAIN perm_cache :
                                       now >= perm_cache[k].expires_at})>>]
    /\ UNCHANGED <<now, ticks, concVars, ixVars, lockVars, histVars, geoVars, coordVars, perm_cache, imgVars, ovVars, selVars>>

PermCleanupExpired_Inclusive ==
    /\ perm_cache' = [k \in {j \in DOMAIN perm_cache : now <= perm_cache[j].expires_at} |->
                         perm_cache[k]]
    /\ perm_last' = [PermCall("cleanup", "none", "ok", FALSE, 0) EXCEPT
                       !.removed = Cardinality(DOMAIN perm_cache)
                                     - Cardinality(DOMAIN perm_cache')]
    /\ UNCHANGED <<now, ticks, concVars, ixVars, lockVars, histVars, geoVars, coordVars, imgVars, ovVars, selVars>>

\* PermissionCache::cleanup_expired; it returns nothing, `removed` is only printed
PermCleanupExpired ==
    /\ perm_cache' = [k \in {j \in DOMAIN perm_cache : now < perm_cache[j].expires_at} |->
                         perm_cache[k]]
    /\ perm_last' = [PermCall("cleanup", "none", "ok", FALSE, 0) EXCEPT
                       !.removed = Cardinality(DOMAIN perm_cache)
                                     - Cardinality(DOMAIN perm_cache')]
    /\ UNCHANGED <<now, ticks, concVars, ixVars, lockVars, histVars, geoVars, coordVars, imgVars, ovVars, selVars>>

NextPerm ==
    \/ Tick(DefaultTtl \div 2)
    \/ \E perm \in Permissions : CheckPermissionCached(perm)
    \/ PermClearCache
    \/ PermGetCacheStats
    \/ PermCleanupExpired

\* The command clear_screenshot_cache, traced: img_wiped keeps the keys of
\* the entries it removed that a capture would still have served.
ClearScreenshotCache_KeepsFresh ==
    /\ cache' = RemoveKeys(cache, {k \in DOMAIN cache : ~CacheFresh(cache[k])})
    /\ img_last' = ImgCall("clear", NoBounds, "ok", NoData, 0)
    /\ img_wiped' = {k \in DOMAIN cache : CacheFresh(cache[k])}
    /\ UNCHANGED <<now, ticks, concVars, ixVars, lockVars, img_hits, img_evicted, perm_wiped, geoVars, coordVars,
                   screen_info, permVars, ovVars, selVars>>

ClearScreenshotCache ==
    /\ cache' = << >>
    /\ img_last' = ImgCall("clear", NoBounds, "ok", NoData, 0)
    /\ img_wiped' = {k \in DOMAIN cache : CacheFresh(cache[k])}
    /\ UNCHANGED <<now, ticks, concVars, ixVars, lockVars, img_hits, img_evicted, perm_wiped, geoVars, coordVars,
                   screen_info, permVars, ovVars, selVars>>

\* The command clear_permission_cache, traced: perm_wiped keeps the kinds
\* of the records it removed that a check would still have served.
ClearPermissionCache ==
    /\ perm_cache' = << >>
    /\ perm_last' = PermCall("clear", "none", "ok", FALSE, 0)
    /\ perm_wiped' = {p \in DOMAIN perm_cache : PermFresh(perm_cache[p])}
    /\ UNCHANGED <<now, ticks, concVars, ixVars, lockVars, img_hits, img_evicted, img_wiped, geoVars, coordVars,
                   imgVars, ovVars, selVars>>

\* The rectangles and permissions asked for while the two sweeps are
\* studied together
SweepBounds == {K1, K3}
SweepPermissions == {"ScreenRecording", "Accessibility"}

\* Both caches with their sweeps: the commands capture_screen_area_optimized,
\* cleanup_screenshot_cache, check_permission_cached and
\* cleanup_permission_cache.  The clock steps by the permission TTL, the
\* longer of the two.
NextSweep ==
    \/ (ticks < MaxSweepTicks /\ Tick(DefaultTtl))
    \/ \E b \in SweepBounds : CaptureScreenAreaOptimized(b)
    \/ CleanupExpired
    \/ \E perm \in SweepPermissions : CheckPermissionCached(perm)
    \/ PermCleanupExpired

\* The rectangle asked for while the two clears are studied together
ClearBounds == {K1}

\* Both caches with their clear and statistics commands
NextClear ==
    \/ (ticks < MaxClearTicks /\ Tick(CacheTtl \div 2))
    \/ \E b \in ClearBounds : CaptureScreenAreaOptimized(b)
    \/ ClearScreenshotCache
    \/ GetCacheStats
    \/ \E perm \in SweepPermissions : CheckPermissionCached(perm)
    \/ ClearPermissionCache
    \/ PermGetCacheStats

\* Both caches with their statistics and sweeps, while records expire: the
\* clock steps by the permission TTL, so that a record checked at time 0
\* is read at the very instant it expires.
NextLazy ==
    \/ (ticks < MaxLazyTicks /\ Tick(DefaultTtl))
    \/ \E b \in ClearBounds : CaptureScreenAreaOptimized(b)
    \/ GetCacheStats
    \/ CleanupExpired
    \/ \E perm \in SweepPermissions : CheckPermissionCached(perm)
    \/ PermGetCacheStats
    \/ PermCleanupExpired

(***************************************************************************)
(* OverlayManager and the application's windows                            *)
(***************************************************************************)

\* Option<WebviewWindow>::None and Option<Instant>::None
NoWindow == [some |-> FALSE, id |-> 0]
NoInstant == [some |-> FALSE, at |-> 0]

\* The label create_react_overlay_once gives its window
OverlayLabel == "overlay"

\* What a call into the windowing toolkit can answer
ToolkitAnswers == {"ok", "error"}

InitOverlay ==
    /\ overlay_window = NoWindow
    /\ is_active = FALSE
    /\ last_used = NoInstant
    /\ app_windows = << >>
    /\ next_window = 1
    /\ ov_last = [op |-> "none", kind |-> "none", creates |-> 0, old |-> FALSE, seq |-> 0]

\* The record of an OverlayManager call: what was called, what it returned
\* (kind "ok" or the error message), how many times it called the window
\* builder, and for cleanup_if_old whether last_used was more than the
\* threshold ago; seq flips on every call.
OvCall(op, kind, creates, old) ==
    [op |-> op, kind |-> kind, creates |-> creates, old |-> old, seq |-> 1 - ov_last.seq]

\* The windows after the window `label` is made visible or hidden
SetVisible(windows, label, visible) ==
    [l \in DOMAIN windows |->
        IF l = label THEN [windows[l] EXCEPT !.visible = visible] ELSE windows[l]]

OnCloseRequested_LetsClose(windows, label) ==
    [l \in (DOMAIN windows) \ {label} |-> windows[l]]

\* on_window_event for WindowEvent::CloseRequested: the main window is let
\* go, any other window is hidden and the close is prevented.
OnCloseRequested(windows, label) ==
    IF label = "main"
    THEN [l \in (DOMAIN windows) \ {label} |-> windows[l]]
    ELSE SetVisible(windows, label, FALSE)

\* WebviewWindow::close(): the close request goes through on_window_event
WindowClose(windows, label) ==
    IF label \in DOMAIN windows THEN OnCloseRequested(windows, label) ELSE windows

\* create_react_overlay_once: WebviewWindowBuilder::new(app, "overlay", ..)
\* .build() fails when the application already holds a window of that
\* label, or when the toolkit fails; otherwise the new window is visible.
CreateReactOverlayOnce(windows, answer) ==
    IF OverlayLabel \in DOMAIN windows
    THEN [kind |-> "Failed to create React overlay: label exists",
          window |-> NoWindow, windows |-> windows]
    ELSE IF answer = "error"
    THEN [kind |-> "Failed to create React overlay", window |-> NoWindow, windows |-> windows]
    ELSE [kind |-> "ok",
          window |-> [some |-> TRUE, id |-> next_window],
          windows |-> [l \in (DOMAIN windows) \cup {OverlayLabel} |->
                          IF l = OverlayLabel
                          THEN [id |-> next_window, visible |-> TRUE]
                          ELSE windows[l]]]

ShowSelectionOverlay_AlwaysCreates ==
    /\ UNCHANGED <<now, ticks, concVars, ixVars, lockVars, histVars, geoVars, coordVars, imgVars, permVars, selVars>>
    /\ \E answer \in ToolkitAnswers :
          LET made == CreateReactOverlayOnce(app_windows, answer)
          IN  IF made.kind # "ok"
              THEN /\ ov_last' = OvCall("show", made.kind, 1, FALSE)
                   /\ UNCHANGED <<overlay_window, is_active, last_used, app_windows,
                                  next_window>>
              ELSE /\ overlay_window' = made.window
                   /\ app_windows' = made.windows
                   /\ next_window' = next_window + 1
                   /\ is_active' = TRUE
                   /\ last_used' = [some |-> TRUE, at |-> now]
                   /\ ov_last' = OvCall("show", "ok", 1, FALSE)

\* OverlayManager::show_selection_overlay, called while the application's
\* windows are `windows`: what it does to the pool and to the windows
ShowSelectionOverlayOn(windows) ==
    \E answer \in ToolkitAnswers :
       IF overlay_window.some
       THEN IF answer = "error"
            THEN /\ ov_last' = OvCall("show", "Failed to show overlay", 0, FALSE)
                 /\ app_windows' = windows
                 /\ UNCHANGED <<overlay_window, is_active, last_used, next_window>>
            ELSE /\ app_windows' = SetVisible(windows, OverlayLabel, TRUE)
                 /\ is_active' = TRUE
                 /\ last_used' = [some |-> TRUE, at |-> now]
                 /\ ov_last' = OvCall("show", "ok", 0, FALSE)
                 /\ UNCHANGED <<overlay_window, next_window>>
       ELSE LET made == CreateReactOverlayOnce(windows, answer)
            IN  IF made.kind # "ok"
                THEN /\ ov_last' = OvCall("show", made.kind, 1, FALSE)
                     /\ app_windows' = windows
                     /\ UNCHANGED <<overlay_window, is_active, last_used, next_window>>
                ELSE /\ overlay_window' = made.window
                     /\ app_windows' = made.windows
                     /\ next_window' = next_window + 1
                     /\ is_active' = TRUE
                     /\ last_used' = [some |-> TRUE, at |-> now]
                     /\ ov_last' = OvCall("show", "ok", 1, FALSE)

\* A call of show_selection_overlay on the shared manager
ShowSelectionOverlay ==
    /\ UNCHANGED <<now, ticks, concVars, ixVars, lockVars, histVars, geoVars, coordVars, imgVars, permVars, selVars>>
    /\ ShowSelectionOverlayOn(app_windows)

HideOverlay_Destroys ==
    /\ UNCHANGED <<now, ticks, concVars, ixVars, lockVars, histVars, geoVars, coordVars, imgVars, permVars, selVars>>
    /\ ov_last' = OvCall("hide", "ok", 0, FALSE)
    /\ IF overlay_window.some
       THEN /\ app_windows' = [l \in (DOMAIN app_windows) \ {OverlayLabel} |-> app_windows[l]]
            /\ overlay_window' = NoWindow
            /\ is_active' = FALSE
            /\ UNCHANGED <<last_used, next_window>>
       ELSE UNCHANGED <<overlay_window, is_active, last_used, app_windows, next_window>>

\* OverlayManager::hide_overlay, with the application's windows left as
\* `windows` but for what the call does to the overlay window
HideOverlayOn(windows) ==
    \E answer \in ToolkitAnswers :
       IF overlay_window.some
       THEN IF answer = "error"
            THEN /\ ov_last' = OvCall("hide", "Failed to hide overlay", 0, FALSE)
                 /\ app_windows' = windows
                 /\ UNCHANGED <<overlay_window, is_active, last_used, next_window>>
            ELSE /\ app_windows' = SetVisible(windows, OverlayLabel, FALSE)
                 /\ is_active' = FALSE
                 /\ ov_last' = OvCall("hide", "ok", 0, FALSE)
                 /\ UNCHANGED <<overlay_window, last_used, next_window>>
       ELSE /\ ov_last' = OvCall("hide", "ok", 0, FALSE)
            /\ app_windows' = windows
            /\ UNCHANGED <<overlay_window, is_active, last_used, next_window>>

\* A call of hide_overlay on the shared manager
HideOverlay ==
    /\ UNCHANGED <<now, ticks, concVars, ixVars, lockVars, histVars, geoVars, coordVars, imgVars, permVars, selVars>>
    /\ HideOverlayOn(app_windows)

CleanupDue_IgnoresActive == last_used.some /\ Elapsed(last_used.at) > IdleThreshold

\* The test of cleanup_if_old:
\* last_used.elapsed() > Duration::from_secs(300) && !self.is_active
CleanupDue == last_used.some /\ Elapsed(last_used.at) > IdleThreshold /\ ~is_active

CleanupIfOld_Unguarded ==
    /\ UNCHANGED <<now, ticks, concVars, ixVars, lockVars, histVars, geoVars, coordVars, imgVars, permVars, selVars>>
    /\ ov_last' = OvCall("cleanup", "ok", 0,
                         last_used.some /\ Elapsed(last_used.at) > IdleThreshold)
    /\ IF overlay_window.some
       THEN /\ app_windows' = WindowClose(app_windows, OverlayLabel)
            /\ overlay_window' = NoWindow
            /\ UNCHANGED <<is_active, last_used, next_window>>
       ELSE UNCHANGED <<overlay_window, is_active, last_used, app_windows, next_window>>

\* OverlayManager::cleanup_if_old
CleanupIfOld ==
    /\ UNCHANGED <<now, ticks, concVars, ixVars, lockVars, histVars, geoVars, coordVars, imgVars, permVars, selVars>>
    /\ ov_last' = OvCall("cleanup", "ok", 0,
                         last_used.some /\ Elapsed(last_used.at) > IdleThreshold)
    /\ IF CleanupDue /\ overlay_window.some
       THEN /\ app_windows' = WindowClose(app_windows, OverlayLabel)
            /\ overlay_window' = NoWindow
            /\ UNCHANGED <<is_active, last_used, next_window>>
       ELSE UNCHANGED <<overlay_window, is_active, last_used, app_windows, next_window>>

NextOverlay ==
    \/ Tick(IdleThreshold \div 2)
    \/ ShowSelectionOverlay
    \/ HideOverlay
    \/ CleanupIfOld

\* The command create_transparent_overlay, which does not go through the
\* pool: it asks an existing window labelled "overlay" to close, waits
\* 200 ms, and builds a window under the same label, whose handle it
\* drops.  The wait is not a separate step: no other command changes which
\* windows exist.
CreateTransparentOverlay ==
    /\ UNCHANGED <<now, ticks, concVars, ixVars, lockVars, histVars, geoVars, coordVars, imgVars, permVars, selVars>>
    /\ \E closed \in ToolkitAnswers, answer \in ToolkitAnswers :
          LET windows1 == IF closed = "ok"
                          THEN WindowClose(app_windows, OverlayLabel)
                          ELSE app_windows
              made == CreateReactOverlayOnce(windows1, answer)
          IN  /\ app_windows' = made.windows
              /\ next_window' = IF made.kind = "ok" THEN next_window + 1 ELSE next_window
              /\ ov_last' = OvCall("create", made.kind, 1, FALSE)
              /\ UNCHANGED <<overlay_window, is_active, last_used>>

\* The command close_transparent_overlay
CloseTransparentOverlay ==
    /\ UNCHANGED <<now, ticks, concVars, ixVars, lockVars, histVars, geoVars, coordVars, imgVars, permVars, selVars>>
    /\ UNCHANGED <<overlay_window, is_active, last_used, next_window>>
    /\ IF OverlayLabel \in DOMAIN app_windows
       THEN \E answer \in ToolkitAnswers :
               IF answer = "error"
               THEN /\ ov_last' = OvCall("close", "Failed to close React overlay", 0, FALSE)
                    /\ UNCHANGED app_windows
               ELSE /\ ov_last' = OvCall("close", "ok", 0, FALSE)
                    /\ app_windows' = WindowClose(app_windows, OverlayLabel)
       ELSE /\ ov_last' = OvCall("close", "React overlay window not found", 0, FALSE)
            /\ UNCHANGED app_windows

\* The pool's commands together with the two that go around it
NextSurface ==
    \/ Tick(IdleThreshold \div 2)
    \/ ShowSelectionOverlay
    \/ HideOverlay
    \/ CleanupIfOld
    \/ CreateTransparentOverlay
    \/ CloseTransparentOverlay

(***************************************************************************)
(* SelectionOverlay                                                        *)
(***************************************************************************)

\* MousePosition values, f64 coordinates written in half pixels: x = 9 is
\* the coordinate 4.5.
HalfPixelPoints == {[x |-> 0, y |-> 0], [x |-> 4, y |-> 4], [x |-> 9, y |-> 40],
                    [x |-> 200, y |-> 100], [x |-> -3, y |-> 11]}

\* `as i32` / `as u32` of an f64 given in half pixels: the fraction is
\* dropped, rounding towards zero.
F64AsInt(h) == IF h >= 0 THEN h \div 2 ELSE -((-h) \div 2)

NoPos == [some |-> FALSE, x |-> 0, y |-> 0]
NoSelBounds == [some |-> FALSE, x |-> 0, y |-> 0, width |-> 0, height |-> 0]
SomePos(pos) == [some |-> TRUE, x |-> pos.x, y |-> pos.y]

\* impl Default for SelectionState
DefaultSelectionState ==
    [is_selecting |-> FALSE, start_pos |-> NoPos, current_pos |-> NoPos,
     selection_bounds |-> NoSelBounds]

CalculateBounds_FromStart(start, end) ==
    [x |-> F64AsInt(start.x),
     y |-> F64AsInt(start.y),
     width |-> F64AsInt(Abs(start.x - end.x)),
     height |-> F64AsInt(Abs(start.y - end.y))]

\* SelectionOverlay::calculate_bounds
CalculateBounds(start, end) ==
    [x |-> F64AsInt(Min(start.x, end.x)),
     y |-> F64AsInt(Min(start.y, end.y)),
     width |-> F64AsInt(Abs(start.x - end.x)),
     height |-> F64AsInt(Abs(start.y - end.y))]

\* SelectionResult of a call that returns none
NoResult == [bounds |-> NoBounds, image_data |-> NoData, cancelled |-> FALSE]

InitSel ==
    /\ sel_state = DefaultSelectionState
    /\ sel_inflight = << >>
    /\ sel_last = [op |-> "none", arg |-> NoPos, kind |-> "none", result |-> NoResult,
                   captures |-> 0, request |-> NoBounds, prev |-> "none",
                   was_selecting |-> FALSE, triggered |-> 0, seq |-> 0]

\* The record of a SelectionOverlay call: what was called (arg is the
\* position given to start_drag and update_mouse_position), what it
\* returned ("ok" for Ok(()), "ok_none" for Ok(None), "ok_some" for
\* Ok(Some(result)), "awaiting" while end_drag waits for capture_region, or
\* the error message), how many times it called capture_region and with
\* which rectangle (request), the operation recorded before it (prev),
\* whether is_selecting held when it took the lock, and how many
\* capture_region calls were started since the last start_drag
\* (triggered); seq flips on every call.
SelCall(op, kind, result, captures) ==
    [op |-> op, arg |-> NoPos, kind |-> kind, result |-> result, captures |-> captures,
     request |-> NoBounds, prev |-> sel_last.op,
     was_selecting |-> sel_state.is_selecting,
     triggered |-> IF op = "start_drag" THEN 0 ELSE sel_last.triggered,
     seq |-> 1 - sel_last.seq]

StartDrag_OnlyFromIdle(pos) ==
    /\ IF sel_state.is_selecting
       THEN /\ UNCHANGED sel_state
            /\ sel_last' = [SelCall("start_drag", "InvalidTransition", NoResult, 0)
                               EXCEPT !.arg = SomePos(pos),
                                      !.triggered = sel_last.triggered]
       ELSE /\ sel_state' = [is_selecting |-> TRUE, start_pos |-> SomePos(pos),
                             current_pos |-> NoPos, selection_bounds |-> NoSelBounds]
            /\ sel_last' = [SelCall("start_drag", "ok", NoResult, 0)
                               EXCEPT !.arg = SomePos(pos)]
    /\ UNCHANGED <<now, ticks, concVars, ixVars, lockVars, histVars, geoVars, coordVars, imgVars, permVars, ovVars, sel_inflight>>

StartDrag_KeepsBounds(pos) ==
    /\ sel_state' = [sel_state EXCEPT !.is_selecting = TRUE, !.start_pos = SomePos(pos)]
    /\ sel_last' = [SelCall("start_drag", "ok", NoResult, 0) EXCEPT !.arg = SomePos(pos)]
    /\ UNCHANGED <<now, ticks, concVars, ixVars, lockVars, histVars, geoVars, coordVars, imgVars, permVars, ovVars, sel_inflight>>

\* SelectionOverlay::start_drag
StartDrag(pos) ==
    /\ sel_state' = [is_selecting |-> TRUE, start_pos |-> SomePos(pos),
                     current_pos |-> NoPos, selection_bounds |-> NoSelBounds]
    /\ sel_last' = [SelCall("start_drag", "ok", NoResult, 0) EXCEPT !.arg = SomePos(pos)]
    /\ UNCHANGED <<now, ticks, concVars, ixVars, lockVars, histVars, geoVars, coordVars, imgVars, permVars, ovVars, sel_inflight>>

UpdateMousePosition_Unguarded(pos) ==
    /\ sel_state' = [sel_state EXCEPT
                       !.current_pos = SomePos(pos),
                       !.selection_bounds =
                           IF sel_state.start_pos.some
                           THEN LET b == CalculateBounds(sel_state.start_pos, pos)
                                IN  [some |-> TRUE, x |-> b.x, y |-> b.y,
                                     width |-> b.width, height |-> b.height]
                           ELSE sel_state.selection_bounds]
    /\ sel_last' = [SelCall("update_mouse_position", "ok", NoResult, 0)
                       EXCEPT !.arg = SomePos(pos)]
    /\ UNCHANGED <<now, ticks, concVars, ixVars, lockVars, histVars, geoVars, coordVars, imgVars, permVars, ovVars, sel_inflight>>

\* SelectionOverlay::update_mouse_position
UpdateMousePosition(pos) ==
    /\ sel_state' =
          IF sel_state.is_selecting
          THEN [sel_state EXCEPT
                  !.current_pos = SomePos(pos),
                  !.selection_bounds =
                      IF sel_state.start_pos.some
                      THEN LET b == CalculateBounds(sel_state.start_pos, pos)
                           IN  [some |-> TRUE, x |-> b.x, y |-> b.y,
                                width |-> b.width, height |-> b.height]
                      ELSE sel_state.selection_bounds]
          ELSE sel_state
    /\ sel_last' = [SelCall("update_mouse_position", "ok", NoResult, 0)
                       EXCEPT !.arg = SomePos(pos)]
    /\ UNCHANGED <<now, ticks, concVars, ixVars, lockVars, histVars, geoVars, coordVars, imgVars, permVars, ovVars, sel_inflight>>

BelowMinimum_Both(bounds) ==
    bounds.width < MinSelectionSize /\ bounds.height < MinSelectionSize

\* The validation of end_drag: bounds.width < 5 || bounds.height < 5
BelowMinimum(bounds) ==
    bounds.width < MinSelectionSize \/ bounds.height < MinSelectionSize

EndDrag_NoReset ==
    /\ UNCHANGED <<now, ticks, concVars, ixVars, lockVars, histVars, geoVars, coordVars, imgVars, permVars, ovVars, sel_state>>
    /\ IF ~sel_state.is_selecting
       THEN /\ sel_last' = SelCall("end_drag", "ok_none", NoResult, 0)
            /\ UNCHANGED sel_inflight
       ELSE LET taken == sel_state.selection_bounds
                bounds == [x |-> taken.x, y |-> taken.y,
                           width |-> taken.width, height |-> taken.height]
            IN  IF ~taken.some
                THEN /\ sel_last' = SelCall("end_drag", "ok_none", NoResult, 0)
                     /\ UNCHANGED sel_inflight
                ELSE IF BelowMinimum(bounds)
                THEN /\ sel_last' = SelCall("end_drag", "ok_some",
                                            [bounds |-> bounds, image_data |-> NoData,
                                             cancelled |-> TRUE], 0)
                     /\ UNCHANGED sel_inflight
                ELSE /\ Len(sel_inflight) < MaxInflight
                     /\ sel_inflight' = Append(sel_inflight, bounds)
                     /\ sel_last' = [SelCall("end_drag", "awaiting", NoResult, 0)
                                        EXCEPT !.request = bounds,
                                               !.triggered = sel_last.triggered + 1]

EndDrag_KeepsAnchor ==
    /\ UNCHANGED <<now, ticks, concVars, ixVars, lockVars, histVars, geoVars, coordVars, imgVars, permVars, ovVars>>
    /\ IF ~sel_state.is_selecting
       THEN /\ sel_last' = SelCall("end_drag", "ok_none", NoResult, 0)
            /\ UNCHANGED <<sel_state, sel_inflight>>
       ELSE LET taken == sel_state.selection_bounds
                bounds == [x |-> taken.x, y |-> taken.y,
                           width |-> taken.width, height |-> taken.height]
            IN  /\ sel_state' = [sel_state EXCEPT !.is_selecting = FALSE,
                                                  !.selection_bounds = NoSelBounds]
                /\ IF ~taken.some
                   THEN /\ sel_last' = SelCall("end_drag", "ok_none", NoResult, 0)
                        /\ UNCHANGED sel_inflight
                   ELSE IF BelowMinimum(bounds)
                   THEN /\ sel_last' = SelCall("end_drag", "ok_some",
                                               [bounds |-> bounds, image_data |-> NoData,
                                                cancelled |-> TRUE], 0)
                        /\ UNCHANGED sel_inflight
                   ELSE /\ Len(sel_inflight) < MaxInflight
                        /\ sel_inflight' = Append(sel_inflight, bounds)
                        /\ sel_last' = [SelCall("end_drag", "awaiting", NoResult, 0)
                                           EXCEPT !.request = bounds,
                                                  !.triggered = sel_last.triggered + 1]

\* SelectionOverlay::end_drag up to its await: the locked block takes the
\* bounds and resets the state, then the bounds are validated; a valid
\* selection goes on to capture_region.
EndDrag ==
    /\ UNCHANGED <<now, ticks, concVars, ixVars, lockVars, histVars, geoVars, coordVars, imgVars, permVars, ovVars>>
    /\ IF ~sel_state.is_selecting
       THEN /\ sel_last' = SelCall("end_drag", "ok_none", NoResult, 0)
            /\ UNCHANGED <<sel_state, sel_inflight>>
       ELSE LET taken == sel_state.selection_bounds
                bounds == [x |-> taken.x, y |-> taken.y,
                           width |-> taken.width, height |-> taken.height]
            IN  /\ sel_state' = DefaultSelectionState
                /\ IF ~taken.some
                   THEN /\ sel_last' = SelCall("end_drag", "ok_none", NoResult, 0)
                        /\ UNCHANGED sel_inflight
                   ELSE IF BelowMinimum(bounds)
                   THEN /\ sel_last' = SelCall("end_drag", "ok_some",
                                               [bounds |-> bounds, image_data |-> NoData,
                                                cancelled |-> TRUE], 0)
                        /\ UNCHANGED sel_inflight
                   ELSE /\ Len(sel_inflight) < MaxInflight
                        /\ sel_inflight' = Append(sel_inflight, bounds)
                        /\ sel_last' = [SelCall("end_drag", "awaiting", NoResult, 0)
                                           EXCEPT !.request = bounds,
                                                  !.triggered = sel_last.triggered + 1]

\* ScreenCapture::capture_region, from the specification's rasterizer
\* contract: the bounds are normalized against the screen, a rectangle
\* below the minimum capture size or a failing rasterizer is an error,
\* otherwise the normalized bounds come back with the encoded image.
CaptureRegion(bounds, shot) ==
    LET safe == ClampBounds(bounds, Screen1, FALSE)
    IN  IF safe.status # "ok" \/ shot.status # "ok"
        THEN [kind |-> "error", bounds |-> NoBounds, image_data |-> NoData]
        ELSE [kind |-> "ok",
              bounds |-> [x |-> safe.x, y |-> safe.y,
                          width |-> safe.width, height |-> safe.height],
              image_data |-> shot.data]

\* SelectionOverlay::end_drag from its await on: capture_region answers
\* and the call returns.
EndDragCaptured(i) ==
    /\ i \in 1..Len(sel_inflight)
    /\ \E shot \in {r \in RasterOutcomes : r.data.id \in {0, 1}} :
          LET capture_result == CaptureRegion(sel_inflight[i], shot)
          IN  sel_last' =
                [(IF capture_result.kind = "ok"
                  THEN SelCall("end_drag", "ok_some",
                               [bounds |-> capture_result.bounds,
                                image_data |-> capture_result.image_data,
                                cancelled |-> FALSE], 1)
                  ELSE SelCall("end_drag", "Failed to capture selection", NoResult, 1))
                 EXCEPT !.request = sel_inflight[i]]
    /\ sel_inflight' = [j \in 1..(Len(sel_inflight) - 1) |->
                           IF j < i THEN sel_inflight[j] ELSE sel_inflight[j + 1]]
    /\ UNCHANGED <<now, ticks, concVars, ixVars, lockVars, histVars, geoVars, coordVars, imgVars, permVars, ovVars, sel_state>>

CancelSelection_KeepsAnchor ==
    /\ sel_state' = [sel_state EXCEPT !.is_selecting = FALSE,
                                      !.selection_bounds = NoSelBounds]
    /\ sel_last' = SelCall("cancel_selection", "ok", NoResult, 0)
    /\ UNCHANGED <<now, ticks, concVars, ixVars, lockVars, histVars, geoVars, coordVars, imgVars, permVars, ovVars, sel_inflight>>

\* SelectionOverlay::cancel_selection
CancelSelection ==
    /\ sel_state' = DefaultSelectionState
    /\ sel_last' = SelCall("cancel_selection", "ok", NoResult, 0)
    /\ UNCHANGED <<now, ticks, concVars, ixVars, lockVars, histVars, geoVars, coordVars, imgVars, permVars, ovVars, sel_inflight>>

NextSel ==
    \/ \E pos \in HalfPixelPoints : StartDrag(pos)
    \/ \E pos \in HalfPixelPoints : UpdateMousePosition(pos)
    \/ EndDrag
    \/ \E i \in 1..MaxInflight : EndDragCaptured(i)
    \/ CancelSelection

(***************************************************************************)
(* InteractiveOverlay                                                      *)
(***************************************************************************)

\* The label create_fullscreen_overlay gives its window
SelectionLabel == "selection-overlay"

\* What ScreenCapture::get_screen_info can answer: an error, no screen, or
\* the screens
ScreenInfoAnswers == {"error", "empty", "ok"}

\* No call has been made, and no channel exists.
IdleSelection == [pc |-> "idle", kind |-> "none", cancelled |-> FALSE, holds_tx |-> FALSE]
NoChannel == [open |-> FALSE, senders |-> 0, queue |-> 0]

InitInteractive ==
    /\ ix_call = IdleSelection
    /\ ix_chan = NoChannel

\* create_fullscreen_overlay: WebviewWindowBuilder::new(app_handle,
\* "selection-overlay", ..).build() fails when the label is in use or the
\* toolkit fails; the new window is visible.
CreateFullscreenOverlay(windows, answer) ==
    IF SelectionLabel \in DOMAIN windows \/ answer = "error"
    THEN [kind |-> "Failed to create overlay window", windows |-> windows, built |-> 0]
    ELSE [kind |-> "ok",
          windows |-> [l \in (DOMAIN windows) \cup {SelectionLabel} |->
                          IF l = SelectionLabel
                          THEN [id |-> next_window, visible |-> TRUE]
                          ELSE windows[l]],
          built |-> 1]

\* A call that ends here: its locals, the Sender among them, are dropped.
SelectionReturns(kind, cancelled) ==
    /\ ix_call' = [pc |-> "returned", kind |-> kind, cancelled |-> cancelled,
                   holds_tx |-> FALSE]
    /\ ix_chan' = NoChannel

\* start_interactive_selection up to the await of the blocking task: the
\* screens are asked for, the overlay window is built, and
\* handle_fullscreen_selection makes the channel, keeps both ends as
\* locals, shows and focuses the window and spawns the task that calls
\* rx.recv().  The Sender tx is not handed to anybody: the store into the
\* application state is commented out.
StartInteractiveSelection ==
    /\ ix_call.pc \in {"idle", "returned"}
    /\ next_window <= MaxWindows
    /\ UNCHANGED <<now, ticks, concVars, lockVars, histVars, geoVars, coordVars, imgVars,
                   permVars, selVars, overlay_window, is_active, last_used, ov_last>>
    /\ \E info \in ScreenInfoAnswers, answer \in ToolkitAnswers,
          shown \in ToolkitAnswers, focused \in ToolkitAnswers :
          IF info = "error"
          THEN /\ SelectionReturns("Failed to get screen info", FALSE)
               /\ UNCHANGED <<app_windows, next_window>>
          ELSE IF info = "empty"
          THEN /\ SelectionReturns("No screens available", FALSE)
               /\ UNCHANGED <<app_windows, next_window>>
          ELSE LET made == CreateFullscreenOverlay(app_windows, answer)
               IN  /\ app_windows' = made.windows
                   /\ next_window' = next_window + made.built
                   /\ IF made.kind # "ok"
                      THEN SelectionReturns(made.kind, FALSE)
                      ELSE IF shown = "error"
                      THEN SelectionReturns("Failed to show overlay", FALSE)
                      ELSE IF focused = "error"
                      THEN SelectionReturns("Failed to focus overlay", FALSE)
                      ELSE /\ ix_call' = [pc |-> "waiting", kind |-> "none",
                                          cancelled |-> FALSE, holds_tx |-> TRUE]
                           /\ ix_chan' = [open |-> TRUE, senders |-> 1, queue |-> 0]

\* The blocking task's rx.recv() and what the call does once the task has
\* answered.  recv returns a queued result, or Err when no Sender is left,
\* and otherwise parks the thread until a send or the drop of the last
\* Sender.  After the answer the call closes the overlay window and
\* returns the result.
WaitForSelection ==
    /\ ix_call.pc = "waiting"
    /\ UNCHANGED <<now, ticks, concVars, lockVars, histVars, geoVars, coordVars, imgVars,
                   permVars, selVars, overlay_window, is_active, last_used, ov_last,
                   next_window>>
    /\ IF ix_chan.queue > 0 \/ ix_chan.senders = 0
       THEN \E closed \in ToolkitAnswers :
               /\ app_windows' = IF closed = "ok"
                                 THEN WindowClose(app_windows, SelectionLabel)
                                 ELSE app_windows
               /\ SelectionReturns(IF closed = "ok" THEN "ok" ELSE "Failed to close overlay",
                                   ix_chan.queue = 0)
       ELSE /\ ix_call' = [ix_call EXCEPT !.pc = "parked"]
            /\ UNCHANGED <<ix_chan, app_windows>>

\* The interactive selection while the overlay page drives the selection
\* session: none of the session's commands holds a Sender of the channel.
NextInteractive ==
    \/ StartInteractiveSelection
    \/ WaitForSelection
    \/ \E pos \in HalfPixelPoints : StartDrag(pos)
    \/ \E pos \in HalfPixelPoints : UpdateMousePosition(pos)
    \/ CancelSelection

(***************************************************************************)
(* The process-wide locks                                                  *)
(***************************************************************************)

\* The Mutexes main() builds and hands to the commands as managed state
Locks == {"app_state", "overlay_manager", "permission_cache", "screenshot_cache"}

Lock(l) == [op |-> "lock", lock |-> l]
Unlock(l) == [op |-> "unlock", lock |-> l]

\* lock() of l, the work under the guard, and the drop of the guard
Under(l) == <<Lock(l), Unlock(l)>>

LockScript_Nested ==
    [cmd \in {"process_screen_selection_optimized"} |->
         <<Lock("screenshot_cache"), Lock("overlay_manager"),
           Unlock("overlay_manager"), Unlock("screenshot_cache")>>]
    @@ [cmd \in {"close_transparent_overlay_optimized"} |->
         <<Lock("overlay_manager"), Lock("screenshot_cache"),
           Unlock("screenshot_cache"), Unlock("overlay_manager")>>]
    @@ [cmd \in {"save_app_state"} |-> Under("app_state") \o Under("app_state")]
    @@ [cmd \in {"check_permissions_cached"} |-> Under("permission_cache")]
    @@ [cmd \in {"capture_screen_area_optimized"} |-> Under("screenshot_cache")]

\* What each command does to the locks, in the order of its statements.
\* check_permissions_cached makes both checks under one guard.
\* process_screen_selection_optimized takes the image cache's lock inside
\* capture_screen_area_optimized, which has returned before the event is
\* sent; the future of close_transparent_overlay_optimized that it makes is
\* dropped unrun, so it never reaches the overlay manager's lock.
\* save_app_state updates the state in a block of its own and locks again
\* for the clone it writes to the file.  No window event handler locks.
LockScript ==
    [cmd \in {"check_permissions_cached", "clear_permission_cache",
              "get_permission_cache_stats", "cleanup_permission_cache"} |->
         Under("permission_cache")]
    @@ [cmd \in {"capture_screen_area_optimized", "clear_screenshot_cache",
                 "get_screenshot_cache_stats", "cleanup_screenshot_cache",
                 "resize_screenshot_buffer", "process_screen_selection_optimized"} |->
         Under("screenshot_cache")]
    @@ [cmd \in {"create_transparent_overlay_optimized",
                 "close_transparent_overlay_optimized", "cleanup_overlay_manager"} |->
         Under("overlay_manager")]
    @@ [cmd \in {"get_app_state"} |-> Under("app_state")]
    @@ [cmd \in {"save_app_state"} |-> Under("app_state") \o Under("app_state")]

\* The commands invoked while the locks are studied: one that uses each
\* lock, and every command that calls another command or locks twice
LockCommands == {"check_permissions_cached", "capture_screen_area_optimized",
                 "process_screen_selection_optimized",
                 "close_transparent_overlay_optimized", "save_app_state"}

IdleCommand == [cmd |-> "none", at |-> 0]

InitLocks ==
    /\ lk_holder = [l \in Locks |-> 0]
    /\ lk_callers = [c \in Callers |-> IdleCommand]
    /\ lk_poisoned = {}

\* What caller c does next: a lock, an unlock, or nothing when it runs no
\* command
NextOp(c) ==
    IF lk_callers[c].cmd = "none" THEN [op |-> "none", lock |-> "none"]
    ELSE LockScript[lk_callers[c].cmd][lk_callers[c].at]

\* Caller c after its next operation: past the last one the command has
\* returned
Advance(c) ==
    IF lk_callers[c].at = Len(LockScript[lk_callers[c].cmd])
    THEN [lk_callers EXCEPT ![c] = IdleCommand]
    ELSE [lk_callers EXCEPT ![c].at = @ + 1]

\* Caller c invokes a command
InvokeCommand(c, cmd) ==
    /\ lk_callers[c].cmd = "none"
    /\ lk_callers' = [lk_callers EXCEPT ![c] = [cmd |-> cmd, at |-> 1]]
    /\ UNCHANGED <<now, ticks, concVars, ixVars, lk_holder, lk_poisoned, histVars, geoVars,
                   coordVars, imgVars, permVars, ovVars, selVars>>

\* Mutex::lock() by caller c: it returns when nobody holds the Mutex
AcquireLock(c) ==
    /\ NextOp(c).op = "lock"
    /\ lk_holder[NextOp(c).lock] = 0
    /\ lk_holder' = [lk_holder EXCEPT ![NextOp(c).lock] = c]
    /\ lk_callers' = Advance(c)
    /\ UNCHANGED <<now, ticks, concVars, ixVars, lk_poisoned, histVars, geoVars, coordVars,
                   imgVars, permVars, ovVars, selVars>>

\* The drop of the guard caller c holds
ReleaseLock(c) ==
    /\ NextOp(c).op = "unlock"
    /\ lk_holder' = [lk_holder EXCEPT ![NextOp(c).lock] = 0]
    /\ lk_callers' = Advance(c)
    /\ UNCHANGED <<now, ticks, concVars, ixVars, lk_poisoned, histVars, geoVars, coordVars,
                   imgVars, permVars, ovVars, selVars>>

NextLocks ==
    \/ \E c \in Callers, cmd \in LockCommands : InvokeCommand(c, cmd)
    \/ \E c \in Callers : AcquireLock(c)
    \/ \E c \in Callers : ReleaseLock(c)

(***************************************************************************)
(* The clamp of the capture rectangle, taken on its own                    *)
(***************************************************************************)

\* Raw rectangles and screens the clamp is studied on: origins over the
\* whole i32 range, extents from 0 up to the largest u32 that is also an
\* i32, below and above the screen's dimensions.
ClampOrigins == {-2147483647 - 1, -5, 0, 1900, 2147483647}
ClampExtents == {0, 8, 10, 100, 1920, 2000, 2147483647}
ClampScreens == {Screen1, [status |-> "ok", width |-> 800, height |-> 600]}

ClampInputs ==
    [bounds : [x : ClampOrigins, y : ClampOrigins,
               width : ClampExtents, height : ClampExtents],
     screen : ClampScreens,
     checks : BOOLEAN]

NoClamp == [status |-> "none", x |-> 0, y |-> 0, width |-> 0, height |-> 0]

\* The rectangle (safe_x, safe_y, safe_width, safe_height) of a clamp result
SafeBounds(safe) ==
    [x |-> safe.x, y |-> safe.y, width |-> safe.width, height |-> safe.height]

InitClamp ==
    /\ geo_in = [bounds |-> K1, screen |-> Screen1, checks |-> FALSE]
    /\ geo_out = [stage |-> 0, first |-> NoClamp, second |-> NoClamp]

\* Lines 93-101 of capture_with_reused_buffer run on the raw rectangle
ClampStep ==
    /\ geo_out.stage = 0
    /\ geo_out' = [stage |-> 1,
                   first |-> ClampBounds(geo_in.bounds, geo_in.screen, geo_in.checks),
                   second |-> NoClamp]
    /\ UNCHANGED <<now, ticks, concVars, ixVars, lockVars, histVars, imgVars, permVars, ovVars, selVars, geo_in, coordVars>>

\* The same lines run on the rectangle they handed to the rasterizer
ClampStepAgain ==
    /\ geo_out.stage = 1
    /\ geo_out.first.status = "ok"
    /\ geo_out' = [geo_out EXCEPT
                     !.stage = 2,
                     !.second = ClampBounds(SafeBounds(geo_out.first), geo_in.screen,
                                            geo_in.checks)]
    /\ UNCHANGED <<now, ticks, concVars, ixVars, lockVars, histVars, imgVars, permVars, ovVars, selVars, geo_in, coordVars>>

NextClamp ==
    \/ ClampStep
    \/ ClampStepAgain

(***************************************************************************)
(* The commands of the capture path (main.rs)                              *)
(***************************************************************************)

\* The rectangles the capture path is driven with
CoordBounds == {K1, KSmall}

InitCoord ==
    coord_last = [op |-> "none", kind |-> "none", granted |-> FALSE, success |-> FALSE,
                  probes |-> 0, raster |-> 0, emitted |-> 0, seq |-> 0]

\* The record of a command: what was called, what it returned ("ok" for
\* Ok, "panic" for a panic, or the error message), the value of
\* check_permissions_cached, whether the capture succeeded, how many native
\* probes and capture_area calls it made and how many selection-result
\* events it sent; seq flips on every command.
CoordCall(op, kind, granted, success, probes, raster, emitted) ==
    [op |-> op, kind |-> kind, granted |-> granted, success |-> success,
     probes |-> probes, raster |-> raster, emitted |-> emitted,
     seq |-> 1 - coord_last.seq]

\* The command check_permissions_cached: ScreenRecording, then
\* Accessibility, each through the cache; an error of the first ends the
\* command.
CheckPermissionsCached ==
    /\ UNCHANGED <<now, ticks, concVars, ixVars, lockVars, histVars, geoVars, imgVars, ovVars, selVars>>
    /\ LET screen_recording == CheckPermissionCachedOn(perm_cache, "ScreenRecording")
           accessibility == CheckPermissionCachedOn(screen_recording.cache, "Accessibility")
       IN  IF screen_recording.kind # "ok"
           THEN /\ perm_cache' = screen_recording.cache
                /\ perm_last' = [PermCall("check", "ScreenRecording", screen_recording.kind,
                                          FALSE, screen_recording.probes)
                                   EXCEPT !.check = screen_recording.check]
                /\ coord_last' = CoordCall("check_permissions_cached", screen_recording.kind,
                                           FALSE, FALSE, screen_recording.probes, 0, 0)
           ELSE /\ perm_cache' = accessibility.cache
                /\ perm_last' = [PermCall("check", "Accessibility", accessibility.kind,
                                          accessibility.granted, accessibility.probes)
                                   EXCEPT !.check = accessibility.check]
                /\ coord_last' =
                      IF accessibility.kind # "ok"
                      THEN CoordCall("check_permissions_cached", accessibility.kind, FALSE,
                                     FALSE, screen_recording.probes + accessibility.probes,
                                     0, 0)
                      ELSE CoordCall("check_permissions_cached", "ok",
                                     screen_recording.granted /\ accessibility.granted, FALSE,
                                     screen_recording.probes + accessibility.probes, 0, 0)

ProcessScreenSelectionOptimized_Gated(bounds) ==
    /\ UNCHANGED <<now, ticks, concVars, ixVars, lockVars, histVars, geoVars, ovVars, selVars>>
    /\ LET screen_recording == CheckPermissionCachedOn(perm_cache, "ScreenRecording")
       IN  /\ perm_cache' = screen_recording.cache
           /\ perm_last' = [PermCall("check", "ScreenRecording", screen_recording.kind,
                                     screen_recording.granted, screen_recording.probes)
                              EXCEPT !.check = screen_recording.check]
           /\ IF screen_recording.kind = "ok" /\ screen_recording.granted
              THEN /\ CaptureOptimized(bounds)
                   /\ coord_last' = CoordCall("process_screen_selection_optimized", "ok",
                                              FALSE, img_last'.kind = "ok",
                                              screen_recording.probes, img_last'.raster, 0)
              ELSE /\ UNCHANGED imgVars
                   /\ coord_last' = CoordCall("process_screen_selection_optimized",
                                              "Permission denied", FALSE, FALSE,
                                              screen_recording.probes, 0, 0)

\* The command process_screen_selection_optimized: the capture through
\* capture_screen_area_optimized, then, when it succeeded, the
\* selection-result event to the main window (emit(..).unwrap()).  The
\* future of close_transparent_overlay_optimized is made and dropped
\* without being awaited, so none of its body runs.  The command returns
\* Ok(()) whether the capture succeeded or not.
ProcessScreenSelectionOptimized(bounds) ==
    /\ UNCHANGED <<now, ticks, concVars, ixVars, lockVars, histVars, geoVars, permVars, ovVars, selVars>>
    /\ CaptureOptimized(bounds)
    /\ IF img_last'.kind = "panic"
       THEN coord_last' = CoordCall("process_screen_selection_optimized", "panic", FALSE,
                                    FALSE, 0, img_last'.raster, 0)
       ELSE IF img_last'.kind = "ok" /\ "main" \in DOMAIN app_windows
       THEN \E answer \in ToolkitAnswers :
               coord_last' = CoordCall("process_screen_selection_optimized",
                                       IF answer = "error" THEN "panic" ELSE "ok",
                                       FALSE, TRUE, 0, img_last'.raster, 1)
       ELSE coord_last' = CoordCall("process_screen_selection_optimized", "ok", FALSE,
                                    img_last'.kind = "ok", 0, img_last'.raster, 0)

\* The command create_main_window: an existing main window is closed, then
\* a window labelled "main" is built.
CreateMainWindow ==
    /\ next_window <= MaxWindows
    /\ UNCHANGED <<now, ticks, concVars, ixVars, lockVars, histVars, geoVars, imgVars, permVars, selVars,
                   overlay_window, is_active, last_used, ov_last>>
    /\ \E answer \in ToolkitAnswers :
          LET closed == WindowClose(app_windows, "main")
          IN  IF answer = "error"
              THEN /\ app_windows' = closed
                   /\ UNCHANGED next_window
                   /\ coord_last' = CoordCall("create_main_window",
                                              "Failed to create main window", FALSE, FALSE,
                                              0, 0, 0)
              ELSE /\ app_windows' = [l \in (DOMAIN closed) \cup {"main"} |->
                                         IF l = "main"
                                         THEN [id |-> next_window, visible |-> TRUE]
                                         ELSE closed[l]]
                   /\ next_window' = next_window + 1
                   /\ coord_last' = CoordCall("create_main_window", "ok", FALSE, FALSE,
                                              0, 0, 0)

\* The cache and permission lifetimes are exercised by SpecImage and
\* SpecPerm; here the clock moves in steps past both of them.
NextCoord ==
    \/ (ticks < MaxCoordTicks /\ Tick(2 * DefaultTtl))
    \/ CheckPermissionsCached
    \/ \E b \in CoordBounds : ProcessScreenSelectionOptimized(b)
    \/ CreateMainWindow

\* What a show() or hide() of the main window leaves: the call is made
\* only when the window exists, and its failure is printed and ignored.
MainWindowSet(windows, visible, answer) ==
    IF "main" \in DOMAIN windows /\ answer = "ok"
    THEN SetVisible(windows, "main", visible)
    ELSE windows

\* The command create_transparent_overlay_optimized: the main window is
\* hidden, then the pool shows its overlay; the result is the pool's.
CreateTransparentOverlayOptimized ==
    /\ UNCHANGED <<now, ticks, concVars, ixVars, lockVars, histVars, geoVars, imgVars, permVars, selVars>>
    /\ \E hidden \in ToolkitAnswers :
          ShowSelectionOverlayOn(MainWindowSet(app_windows, FALSE, hidden))
    /\ coord_last' = CoordCall("create_transparent_overlay_optimized", ov_last'.kind,
                               FALSE, FALSE, 0, 0, 0)

\* The command close_transparent_overlay_optimized, when its future is
\* run: the pool hides its overlay, then the main window is shown again
\* whatever the pool answered; the result is the pool's.  The two calls
\* act on different windows, so the main window is set first here.
CloseTransparentOverlayOptimized ==
    /\ UNCHANGED <<now, ticks, concVars, ixVars, lockVars, histVars, geoVars, imgVars, permVars, selVars>>
    /\ \E shown \in ToolkitAnswers :
          HideOverlayOn(MainWindowSet(app_windows, TRUE, shown))
    /\ coord_last' = CoordCall("close_transparent_overlay_optimized", ov_last'.kind,
                               FALSE, FALSE, 0, 0, 0)

\* The rectangles asked for while panics under the lock are studied
PoisonBounds == {K1, KWide}

\* The command capture_screen_area_optimized with the state of its Mutex:
\* cache.lock().unwrap() panics when the Mutex is poisoned, and a panic of
\* capture_optimized unwinds through the guard, which poisons the Mutex.
\* An Err of capture_optimized comes back as Ok(CaptureResult) with
\* success = false.
CaptureScreenAreaOptimizedUnderLock(bounds) ==
    /\ UNCHANGED <<now, ticks, concVars, ixVars, lk_holder, lk_callers, histVars, geoVars,
                   permVars, ovVars, selVars>>
    /\ IF "screenshot_cache" \in lk_poisoned
       THEN /\ coord_last' = CoordCall("capture_screen_area_optimized", "panic", FALSE,
                                       FALSE, 0, 0, 0)
            /\ UNCHANGED <<imgVars, lk_poisoned>>
       ELSE /\ CaptureOptimized(bounds)
            /\ lk_poisoned' = IF img_last'.kind = "panic"
                              THEN lk_poisoned \cup {"screenshot_cache"}
                              ELSE lk_poisoned
            /\ coord_last' = CoordCall("capture_screen_area_optimized",
                                       IF img_last'.kind = "panic" THEN "panic" ELSE "ok",
                                       FALSE, img_last'.kind = "ok", 0, img_last'.raster, 0)

\* The command get_screenshot_cache_stats with the state of its Mutex
GetScreenshotCacheStatsUnderLock ==
    /\ UNCHANGED <<ticks, concVars, ixVars, lockVars, histVars, geoVars, permVars, ovVars,
                   selVars, now, cache, screen_info>>
    /\ IF "screenshot_cache" \in lk_poisoned
       THEN /\ coord_last' = CoordCall("get_screenshot_cache_stats", "panic", FALSE, FALSE,
                                       0, 0, 0)
            /\ UNCHANGED img_last
       ELSE /\ img_last' = [ImgCall("stats", NoBounds, "ok", NoData, 0) EXCEPT
                              !.stats = <<Cardinality(DOMAIN cache), GetTotalCacheSize(cache),
                                          Cardinality({k \in DOMAIN cache :
                                              Elapsed(cache[k].captured_at) > CacheTtl})>>]
            /\ coord_last' = CoordCall("get_screenshot_cache_stats", "ok", FALSE, FALSE,
                                       0, 0, 0)

\* The cache commands under requests of any size: the capture and the
\* statistics of the image cache, and the permission check.
NextPoison ==
    \/ (ticks < MaxPoisonTicks /\ Tick(CacheTtl))
    \/ \E b \in PoisonBounds : CaptureScreenAreaOptimizedUnderLock(b)
    \/ GetScreenshotCacheStatsUnderLock
    \/ CheckPermissionsCached

\* The rectangle selected while the selection flow is studied
FlowBounds == {K1}

\* The selection flow as the frontend drives it: the main window is
\* created, the overlay is opened, a selection is processed, the overlay
\* is closed.  Every step is a command the frontend invokes.
NextFlow ==
    \/ CreateMainWindow
    \/ CreateTransparentOverlayOptimized
    \/ \E b \in FlowBounds : ProcessScreenSelectionOptimized(b)
    \/ CloseTransparentOverlayOptimized

Init ==
    /\ now = 0
    /\ ticks = 0
    /\ InitConc
    /\ InitInteractive
    /\ InitLocks
    /\ InitImage
    /\ InitPerm
    /\ InitOverlay
    /\ InitSel
    /\ InitClamp
    /\ InitCoord

\* The state the clamp study starts from: any raw rectangle, screen and
\* build setting, everything else as constructed.
InitAnyClamp ==
    /\ now = 0
    /\ ticks = 0
    /\ InitConc
    /\ InitInteractive
    /\ InitLocks
    /\ InitImage
    /\ InitPerm
    /\ InitOverlay
    /\ InitSel
    /\ geo_in \in ClampInputs
    /\ geo_out = [stage |-> 0, first |-> NoClamp, second |-> NoClamp]
    /\ InitCoord

SpecImage == Init /\ [][NextImage]_vars

SpecPerm == Init /\ [][NextPerm]_vars

SpecOverlay == Init /\ [][NextOverlay]_vars

SpecSel == Init /\ [][NextSel]_vars

SpecClamp == InitAnyClamp /\ [][NextClamp]_vars

SpecCoord == Init /\ [][NextCoord]_vars

SpecAge == Init /\ [][NextAge]_vars

SpecSweep == Init /\ [][NextSweep]_vars

SpecClear == Init /\ [][NextClear]_vars

SpecSurface == Init /\ [][NextSurface]_vars

SpecConc == Init /\ [][NextConc]_vars

SpecLazy == Init /\ [][NextLazy]_vars

SpecFlow == Init /\ [][NextFlow]_vars

SpecPoison == Init /\ [][NextPoison]_vars

SpecLocks == Init /\ [][NextLocks]_vars

\* The runtime runs the spawned blocking task; the calls themselves are
\* made by the frontend when it chooses.
SpecInteractive == Init /\ [][NextInteractive]_vars /\ WF_vars(WaitForSelection)

(***************************************************************************)
(* Properties of the image cache                                           *)
(***************************************************************************)

\* This step is a ScreenshotCache call of operation op on key b.
ImgCalled(op, b) ==
    /\ img_last'.seq # img_last.seq
    /\ img_last'.op = op
    /\ img_last'.key = b

\* The results of capture_optimized that are returned errors
ImgErrors == {"Failed to get screen info", "No screens available",
              "Failed to access screens", "Capture area too small after adjustment",
              "Screen capture failed", "PNG encoding failed"}

\* C1: a capture_optimized(b) made while b's entry is present and less than
\* the TTL old returns Ok with the stored payload, does not call the
\* rasterizer and leaves the cache as it is; and the payload a storing call
\* returned is the payload it stored.
C1_CacheHit ==
    [][\A b \in RequestBounds :
          /\ (ImgCalled("capture", b) /\ b \in DOMAIN cache
                  /\ now - cache[b].captured_at < CacheTtl)
               => /\ img_last'.kind = "ok"
                  /\ img_last'.data = cache[b].data
                  /\ img_last'.raster = 0
                  /\ cache' = cache
          /\ (ImgCalled("capture", b) /\ img_last'.kind = "ok")
               => (b \in DOMAIN cache' /\ cache'[b].data = img_last'.data)]_vars

\* A hit has just been served from an entry captured earlier.
C1_Witness ==
    /\ img_last.op = "capture" /\ img_last.kind = "ok" /\ img_last.raster = 0
    /\ img_last.key \in DOMAIN cache
    /\ cache[img_last.key].data = img_last.data
    /\ now - cache[img_last.key].captured_at \in 1..(CacheTtl - 1)

\* C2: a capture_optimized(b) made when b's entry is at least the TTL old
\* is a miss: it is never answered from the cache, the stale entry is gone
\* afterwards, the rasterizer is called once (not at all only when the call
\* fails before reaching it, never twice), and a successful call leaves
\* for b exactly the new payload with captured_at = now.
C2_ExpiredIsMiss ==
    [][\A b \in RequestBounds :
          (ImgCalled("capture", b) /\ b \in DOMAIN cache
              /\ now - cache[b].captured_at >= CacheTtl)
           => /\ img_last'.raster <= 1
              /\ img_last'.kind \in {"ok", "Screen capture failed", "PNG encoding failed"}
                    => img_last'.raster = 1
              /\ IF img_last'.kind = "ok"
                 THEN /\ b \in DOMAIN cache'
                      /\ cache'[b] = [data |-> img_last'.data, captured_at |-> now,
                                      size_bytes |-> img_last'.data.len]
                 ELSE b \notin DOMAIN cache']_vars

\* An expired entry has just been replaced by a fresh capture.
C2_Witness ==
    /\ img_last.op = "capture" /\ img_last.check = "expired"
    /\ img_last.kind = "ok" /\ img_last.raster = 1
    /\ img_last.key \in DOMAIN cache
    /\ cache[img_last.key].captured_at = now
    /\ now >= CacheTtl

\* C3: the sizes of the cached entries never add up to more than
\* max_cache_size.
C3_SizeBound == GetTotalCacheSize(cache) <= MaxCacheSize

\* C4: when an insertion evicts entries, every evicted entry was captured
\* no later than every entry that survives.
C4_EvictionOrder ==
    [][\A b \in RequestBounds :
          (ImgCalled("capture", b) /\ img_last'.kind = "ok" /\ img_last'.raster = 1)
           => \A e \in ((DOMAIN cache) \ {b}) \ (DOMAIN cache') :
                 \A k \in (DOMAIN cache') \ {b} :
                     /\ k \in DOMAIN cache
                     /\ cache[e].captured_at <= cache[k].captured_at]_vars

\* An insertion has just evicted some entry and spared another.
C4_Witness ==
    /\ img_last.op = "capture" /\ img_last.kind = "ok"
    /\ img_last.evicted # {}
    /\ (DOMAIN cache) \ {img_last.key} # {}

\* C5 as claimed: a capture_optimized that returns an error leaves exactly
\* the entries that were cached before the call.
C5_FailureLeavesCache ==
    [][\A b \in RequestBounds :
          (ImgCalled("capture", b) /\ img_last'.kind \in ImgErrors) => cache' = cache]_vars

\* C5 amended: a capture_optimized(b) that returns an error inserts nothing
\* and removes nothing except b's own entry, and that only when it was
\* already expired (at least the TTL old) at the start of the call.
C5_FailureRemovesOnlyStale ==
    [][\A b \in RequestBounds :
          (ImgCalled("capture", b) /\ img_last'.kind \in ImgErrors)
           => /\ \A k \in DOMAIN cache' : k \in DOMAIN cache /\ cache'[k] = cache[k]
              /\ (DOMAIN cache) \ (DOMAIN cache') \subseteq {b}
              /\ b \in (DOMAIN cache) \ (DOMAIN cache')
                    => now - cache[b].captured_at >= CacheTtl]_vars

\* A failed call has just dropped the expired entry of its key and kept
\* another entry.
C5_Witness ==
    /\ img_last.op = "capture" /\ img_last.kind \in ImgErrors
    /\ img_last.check = "expired"
    /\ img_last.key \notin DOMAIN cache
    /\ cache # << >>

(***************************************************************************)
(* Properties of the permission cache                                      *)
(***************************************************************************)

\* This step is a PermissionCache call of operation op on kind perm.
PermCalled(op, perm) ==
    /\ perm_last'.seq # perm_last.seq
    /\ perm_last'.op = op
    /\ perm_last'.perm = perm

\* C6: check_permission_cached on a kind whose record exists with
\* now < expires_at returns the stored granted value, runs no probe and
\* leaves the cache as it is; with no record, or with now >= expires_at, it
\* runs the probe exactly once, returns its answer and stores it with
\* checked_at = now and expires_at = now + TTL.
C6_PermissionHitMiss ==
    [][\A perm \in Permissions :
          PermCalled("check", perm) =>
             IF perm \in DOMAIN perm_cache /\ now < perm_cache[perm].expires_at
             THEN /\ perm_last'.probes = 0
                  /\ perm_last'.kind = "ok"
                  /\ perm_last'.granted = perm_cache[perm].granted
                  /\ perm_cache' = perm_cache
             ELSE /\ perm_last'.probes = 1
                  /\ perm_last'.kind = "ok"
                  /\ perm \in DOMAIN perm_cache'
                  /\ perm_cache'[perm] = [granted |-> perm_last'.granted, checked_at |-> now,
                                          expires_at |-> now + DefaultTtl]]_vars

\* A kind whose record had expired has just been probed again and stored.
C6_Witness ==
    /\ perm_last.op = "check" /\ perm_last.check = "expired" /\ perm_last.probes = 1
    /\ perm_last.perm \in DOMAIN perm_cache
    /\ perm_cache[perm_last.perm].checked_at = now
    /\ perm_cache[perm_last.perm].expires_at = now + DefaultTtl

(***************************************************************************)
(* Properties of the overlay pool                                          *)
(***************************************************************************)

\* This step is an OverlayManager call of operation op.
OvCalled(op) ==
    /\ ov_last'.seq # ov_last.seq
    /\ ov_last'.op = op

\* The pool holds a surface that the application shows.
Shown ==
    /\ overlay_window.some /\ is_active
    /\ OverlayLabel \in DOMAIN app_windows
    /\ app_windows[OverlayLabel] = [id |-> overlay_window.id, visible |-> TRUE]

\* C7: without idle reclaim the window builder is called only by a show
\* that finds no surface; show and hide never replace or drop a surface
\* the pool holds, a show that finds a surface calls no builder, and every
\* successful show ends Shown; so a held surface is the one and only
\* window ever built.
C7_OverlayPooling ==
    [][/\ OvCalled("show") =>
            /\ ov_last'.creates = (IF overlay_window.some THEN 0 ELSE 1)
            /\ overlay_window.some => overlay_window' = overlay_window
            /\ ov_last'.kind = "ok" => Shown'
       /\ OvCalled("hide") =>
            /\ ov_last'.creates = 0
            /\ overlay_window' = overlay_window
       /\ overlay_window'.some => next_window' = 2]_vars

\* A show has just reused the surface an earlier show created and a hide
\* had hidden.
C7_Witness ==
    /\ ov_last.op = "show" /\ ov_last.kind = "ok" /\ ov_last.creates = 0
    /\ Shown
    /\ next_window = 2

\* C8 as claimed: a cleanup_if_old on a hidden surface idle for more than
\* the threshold destroys the window and empties the pool, and a show on
\* the empty pool builds a window and ends Shown unless the toolkit itself
\* fails.
C8_ReclaimThenRecreate ==
    [][/\ (OvCalled("cleanup") /\ overlay_window.some /\ ~is_active
              /\ last_used.some /\ now - last_used.at > IdleThreshold)
            => (~overlay_window'.some /\ OverlayLabel \notin DOMAIN app_windows')
       /\ (OvCalled("show") /\ ~overlay_window.some
              /\ ov_last'.kind # "Failed to create React overlay")
            => (ov_last'.kind = "ok" /\ ov_last'.creates = 1 /\ Shown')]_vars

\* C9: cleanup_if_old called while is_active holds leaves the surface
\* handle, is_active, last_used and the window itself unchanged.
C9_NoReclaimWhileShown ==
    [][(OvCalled("cleanup") /\ is_active)
          => UNCHANGED <<overlay_window, is_active, last_used, app_windows>>]_vars

\* cleanup_if_old has just run on a shown surface last used more than the
\* threshold ago.
C9_Witness ==
    /\ ov_last.op = "cleanup" /\ ov_last.old
    /\ Shown
    /\ now - last_used.at > IdleThreshold

(***************************************************************************)
(* Properties of the selection session                                     *)
(***************************************************************************)

\* This step is a SelectionOverlay call of operation op that is not the
\* return of an awaited capture.
SelCalled(op) ==
    /\ sel_last'.seq # sel_last.seq
    /\ sel_last'.op = op
    /\ sel_inflight' = sel_inflight \/ Len(sel_inflight') > Len(sel_inflight)

\* The session is dragging with provisional bounds below the 5 px minimum.
SubMinimumDrag ==
    /\ sel_state.is_selecting
    /\ sel_state.selection_bounds.some
    /\ \/ sel_state.selection_bounds.width < MinSelectionSize
       \/ sel_state.selection_bounds.height < MinSelectionSize

\* C10 as claimed: end_drag on provisional bounds with width < 5 or
\* height < 5 returns Ok(None), calls no capture and leaves the session Idle.
C10_SubMinimumReturnsNone ==
    [][(SelCalled("end_drag") /\ SubMinimumDrag)
          => /\ sel_last'.kind = "ok_none"
             /\ sel_last'.captures = 0
             /\ sel_inflight' = sel_inflight
             /\ sel_state' = DefaultSelectionState]_vars

\* C10 amended: end_drag on provisional bounds with width < 5 or
\* height < 5 returns Ok(Some(result)) where result is cancelled, carries
\* the provisional bounds and no image data; it calls no capture and
\* leaves the session Idle.
C10_SubMinimumCancelled ==
    [][(SelCalled("end_drag") /\ SubMinimumDrag)
          => /\ sel_last'.kind = "ok_some"
             /\ sel_last'.result.cancelled
             /\ sel_last'.result.image_data = NoData
             /\ sel_last'.result.bounds =
                   [x |-> sel_state.selection_bounds.x, y |-> sel_state.selection_bounds.y,
                    width |-> sel_state.selection_bounds.width,
                    height |-> sel_state.selection_bounds.height]
             /\ sel_last'.captures = 0
             /\ sel_inflight' = sel_inflight
             /\ sel_state' = DefaultSelectionState]_vars

\* end_drag has just cancelled a gesture that was 4 px wide and 20 px high.
C10_Witness ==
    /\ sel_last.op = "end_drag" /\ sel_last.kind = "ok_some"
    /\ sel_last.result.cancelled
    /\ sel_last.result.bounds.width < MinSelectionSize
    /\ sel_last.result.bounds.height >= MinSelectionSize
    /\ sel_last.captures = 0
    /\ sel_state = DefaultSelectionState

\* A capture_region answer has come back and its end_drag call returns.
EndDragReturned ==
    /\ sel_last'.seq # sel_last.seq
    /\ sel_last'.op = "end_drag"
    /\ Len(sel_inflight') < Len(sel_inflight)

\* The session is dragging with provisional bounds of at least 5 x 5.
CompletedDrag ==
    /\ sel_state.is_selecting
    /\ sel_state.selection_bounds.some
    /\ sel_state.selection_bounds.width >= MinSelectionSize
    /\ sel_state.selection_bounds.height >= MinSelectionSize

\* The rectangle spanned by the anchor a and the point p: the smaller x,
\* the smaller y, |dx| and |dy|, each with its fraction dropped.
SpannedRectangle(a, p) ==
    [x |-> F64AsInt(IF a.x <= p.x THEN a.x ELSE p.x),
     y |-> F64AsInt(IF a.y <= p.y THEN a.y ELSE p.y),
     width |-> F64AsInt(IF a.x <= p.x THEN p.x - a.x ELSE a.x - p.x),
     height |-> F64AsInt(IF a.y <= p.y THEN p.y - a.y ELSE a.y - p.y)]

\* C11 as claimed: end_drag on provisional bounds of at least 5 x 5 leaves
\* the session Idle and returns Ok(Some(key)), key being the rectangle
\* spanned by the anchor and the most recent update point.
C11_CompletedReturnsKey ==
    [][/\ (SelCalled("end_drag") /\ CompletedDrag)
            => /\ sel_state' = DefaultSelectionState
               /\ sel_last'.request =
                     SpannedRectangle(sel_state.start_pos, sel_state.current_pos)
       /\ EndDragReturned
            => /\ sel_last'.kind = "ok_some"
               /\ sel_last'.result.bounds = sel_last'.request]_vars

\* C11 amended: end_drag on provisional bounds of at least 5 x 5 leaves the
\* session Idle and calls capture_region once, with the rectangle spanned
\* by the anchor and the most recent update point; when the capture comes
\* back it returns either Ok(Some(result)) with result not cancelled, or
\* the error "Failed to capture selection".
C11_CompletedCaptures ==
    [][/\ (SelCalled("end_drag") /\ CompletedDrag)
            => /\ sel_state' = DefaultSelectionState
               /\ sel_last'.request =
                     SpannedRectangle(sel_state.start_pos, sel_state.current_pos)
               /\ sel_inflight' = Append(sel_inflight, sel_last'.request)
       /\ EndDragReturned
            => /\ sel_last'.captures = 1
               /\ \/ /\ sel_last'.kind = "ok_some"
                     /\ ~sel_last'.result.cancelled
                  \/ /\ sel_last'.kind = "Failed to capture selection"
                     /\ sel_last'.result = NoResult]_vars

\* end_drag has just returned the capture of a gesture spanning (0, 0) and
\* (100, 50).
C11_Witness ==
    /\ sel_last.op = "end_drag" /\ sel_last.kind = "ok_some"
    /\ ~sel_last.result.cancelled
    /\ sel_last.captures = 1
    /\ sel_last.request = [x |-> 0, y |-> 0, width |-> 100, height |-> 50]
    /\ sel_last.result.image_data # NoData

\* C12 as claimed: start_drag in Idle records the anchor, clears current
\* and bounds and starts dragging; in any other state it returns
\* InvalidTransition and leaves the state as it is.
C12_BeginDragOnlyFromIdle ==
    [][SelCalled("start_drag")
          => IF ~sel_state.is_selecting
             THEN /\ sel_last'.kind = "ok"
                  /\ sel_state' = [is_selecting |-> TRUE, start_pos |-> sel_last'.arg,
                                   current_pos |-> NoPos, selection_bounds |-> NoSelBounds]
             ELSE /\ sel_last'.kind = "InvalidTransition"
                  /\ sel_state' = sel_state]_vars

\* C12 amended: start_drag is accepted in every state: it returns Ok,
\* records the anchor, clears current and bounds and starts dragging; a
\* gesture that was in progress is discarded.
C12_BeginDragRestarts ==
    [][SelCalled("start_drag")
          => /\ sel_last'.kind = "ok"
             /\ sel_last'.arg.some
             /\ sel_state' = [is_selecting |-> TRUE, start_pos |-> sel_last'.arg,
                              current_pos |-> NoPos, selection_bounds |-> NoSelBounds]]_vars

\* start_drag has just been accepted while a gesture with provisional
\* bounds was in progress.
C12_Witness ==
    /\ sel_last.op = "start_drag" /\ sel_last.kind = "ok"
    /\ sel_last.was_selecting
    /\ sel_last.prev = "update_mouse_position"
    /\ sel_state.is_selecting
    /\ sel_state.start_pos = sel_last.arg
    /\ ~sel_state.selection_bounds.some


(***************************************************************************)
(* Properties of the clamp                                                 *)
(***************************************************************************)

\* C13: whenever the clamp of a raw rectangle succeeds with the rectangle
\* k, the clamp of k on the same screen succeeds and yields k again.
C13_ClampIdempotent ==
    geo_out.stage = 2
        => /\ geo_out.second.status = "ok"
           /\ SafeBounds(geo_out.second) = SafeBounds(geo_out.first)

\* The clamp has moved a rectangle onto the screen and has been applied to
\* its own result.
C13_Witness ==
    /\ geo_out.stage = 2
    /\ SafeBounds(geo_out.first) # geo_in.bounds
    /\ geo_out.first.x >= 0 /\ geo_out.first.y >= 0
    /\ geo_out.second = geo_out.first

\* C14: the clamp never overflows or underflows (which panics in a build
\* with overflow checks), and every rectangle it passes to the rasterizer
\* has 0 <= x, 0 <= y, x + width <= screen_width and
\* y + height <= screen_height.
C14_ClampOnScreen ==
    geo_out.stage >= 1
        => /\ geo_out.first.status # "panic"
           /\ geo_out.first.status = "ok"
                 => /\ 0 <= geo_out.first.x
                    /\ 0 <= geo_out.first.y
                    /\ geo_out.first.width <= geo_in.screen.width - geo_out.first.x
                    /\ geo_out.first.height <= geo_in.screen.height - geo_out.first.y

(***************************************************************************)
(* Properties of the cache keys                                            *)
(***************************************************************************)

\* The rectangle the clamp turns r into on the screen Screen1
NormalizedOf(r) == SafeBounds(ClampBounds(r, Screen1, FALSE))

\* This step is a capture_optimized call asked for the rectangle b.
ImgAsked(b) ==
    /\ img_last'.seq # img_last.seq
    /\ img_last'.op = "capture"
    /\ img_last'.bounds = b

\* C15: a capture_optimized for a rectangle whose clamped width or height
\* is below 10 returns an error (the too-small error unless the screen
\* query failed first), calls no rasterizer and stores nothing; and every
\* key in the cache has width >= 10 and height >= 10.
C15_MinimumCaptureSize ==
    [][/\ \A b \in RequestBounds :
             (ImgAsked(b) /\ \A checks \in BOOLEAN :
                                ClampBounds(b, Screen1, checks).status = "too_small")
              => /\ img_last'.kind \in ImgErrors
                 /\ img_last'.kind \notin {"Failed to get screen info",
                                           "No screens available",
                                           "Failed to access screens"}
                       => img_last'.kind = "Capture area too small after adjustment"
                 /\ img_last'.raster = 0
                 /\ b \notin DOMAIN cache'
                 /\ img_last'.key \notin DOMAIN cache'
       /\ \A k \in DOMAIN cache' :
             k.width >= MinCaptureSize /\ k.height >= MinCaptureSize]_vars

\* An 8 x 8 rectangle has just been rejected as too small while the cache
\* holds an entry.
C15_Witness ==
    /\ img_last.op = "capture" /\ img_last.bounds = KSmall
    /\ img_last.kind = "Capture area too small after adjustment"
    /\ img_last.raster = 0
    /\ cache # << >>
    /\ KSmall \notin DOMAIN cache

\* C16 as claimed: every key stored in the cache is a clamped rectangle,
\* and a request whose rectangle clamps to the geometry of a fresh entry
\* is served from the cache without a capture.
C16_KeyedByNormalized ==
    [][\A b \in RequestBounds :
          ImgAsked(b)
           => /\ \A k \in DOMAIN cache' : NormalizedOf(k) = k
              /\ (\E k \in DOMAIN cache :
                     /\ now - cache[k].captured_at < CacheTtl
                     /\ NormalizedOf(k) = NormalizedOf(b))
                    => (img_last'.kind = "ok" /\ img_last'.raster = 0)]_vars

\* C16 amended: the cache is keyed by the raw rectangle of the request: a
\* call for b looks up and stores under b itself, it is a hit exactly when
\* b's own entry is fresh, and a successful call that finds no entry under
\* b captures once and stores under b, whatever other rectangles of the
\* same clamped geometry are cached.
C16_KeyedByRawBounds ==
    [][\A b \in RequestBounds :
          ImgAsked(b)
           => /\ img_last'.key = b
              /\ img_last'.check = "hit"
                    <=> (b \in DOMAIN cache /\ now - cache[b].captured_at < CacheTtl)
              /\ img_last'.kind = "ok" => b \in DOMAIN cache'
              /\ (img_last'.kind = "ok" /\ b \notin DOMAIN cache)
                    => img_last'.raster = 1]_vars

\* A request for K2 has just been captured and stored next to the fresh
\* entry of K1, which has the same clamped geometry.
C16_Witness ==
    /\ img_last.op = "capture" /\ img_last.bounds = K2
    /\ img_last.check = "absent" /\ img_last.kind = "ok" /\ img_last.raster = 1
    /\ NormalizedOf(K1) = NormalizedOf(K2)
    /\ K1 \in DOMAIN cache /\ K2 \in DOMAIN cache
    /\ cache[K1].captured_at < now
    /\ now - cache[K1].captured_at < CacheTtl
    /\ cache[K2].captured_at = now

(***************************************************************************)
(* Properties of the capture path                                          *)
(***************************************************************************)

\* This step is the command op.
CoordCalled(op) ==
    /\ coord_last'.seq # coord_last.seq
    /\ coord_last'.op = op

\* C17 as claimed: process_screen_selection_optimized checks the required
\* permissions through the permission cache before it captures, and when
\* one is denied it returns a permission error without consulting the
\* image cache or calling the rasterizer.
C17_PermissionGating ==
    [][CoordCalled("process_screen_selection_optimized")
          => /\ perm_last'.seq # perm_last.seq
             /\ perm_last'.op = "check"
             /\ ~perm_last'.granted
                   => /\ coord_last'.kind = "Permission denied"
                      /\ coord_last'.raster = 0
                      /\ UNCHANGED imgVars]_vars

\* C17 amended: process_screen_selection_optimized goes to the image cache
\* without any permission check: it runs no probe and leaves the
\* permission cache as it is, also when no permission was ever checked;
\* check_permissions_cached is a command of its own that answers the
\* conjunction of ScreenRecording and Accessibility from the permission
\* cache and touches neither the image cache nor the rasterizer.
C17_CaptureNotGated ==
    [][/\ CoordCalled("process_screen_selection_optimized")
            => /\ UNCHANGED permVars
               /\ coord_last'.probes = 0
               /\ coord_last'.kind \in {"ok", "panic"}
               /\ img_last'.seq # img_last.seq
               /\ img_last'.op = "capture"
               /\ coord_last'.raster = img_last'.raster
               /\ coord_last'.success = (img_last'.kind = "ok")
       /\ CoordCalled("check_permissions_cached")
            => /\ UNCHANGED imgVars
               /\ coord_last'.raster = 0
               /\ coord_last'.kind = "ok"
               /\ {"ScreenRecording", "Accessibility"} \subseteq DOMAIN perm_cache'
               /\ coord_last'.granted = (/\ perm_cache'["ScreenRecording"].granted
                                         /\ perm_cache'["Accessibility"].granted)]_vars

\* A selection has just been captured by the rasterizer although no
\* permission was ever checked.
C17_Witness ==
    /\ coord_last.op = "process_screen_selection_optimized"
    /\ coord_last.kind = "ok" /\ coord_last.success
    /\ coord_last.raster = 1
    /\ perm_cache = << >>
    /\ perm_last.op = "none"

(***************************************************************************)
(* Properties of the selection session under repeated and concurrent calls *)
(***************************************************************************)

\* C18: of the end_drag and cancel_selection calls that follow one
\* start_drag, in any interleaving and with captures still in flight, at
\* most one end_drag takes the gesture's bounds and starts a capture; an
\* end_drag that finds the gesture already taken or cancelled returns
\* Ok(None) and starts nothing; cancel_selection takes the gesture away;
\* and nothing but end_drag starts a capture.
C18_ConsumedOnce ==
    [][/\ sel_last'.triggered <= 1
       /\ Len(sel_inflight') > Len(sel_inflight)
            => /\ sel_last'.op = "end_drag"
               /\ sel_state.is_selecting
               /\ sel_last.triggered = 0
               /\ ~sel_state'.is_selecting
               /\ Len(sel_inflight') = Len(sel_inflight) + 1
       /\ (SelCalled("end_drag") /\ ~sel_state.is_selecting)
            => /\ sel_last'.kind = "ok_none"
               /\ UNCHANGED <<sel_state, sel_inflight>>
       /\ SelCalled("cancel_selection") => ~sel_state'.is_selecting]_vars

\* A second end_drag has just returned Ok(None) while the capture started
\* by the first end_drag of the same gesture is still in flight.
C18_Witness ==
    /\ sel_last.op = "end_drag" /\ sel_last.kind = "ok_none"
    /\ sel_last.prev = "end_drag"
    /\ ~sel_last.was_selecting
    /\ sel_last.triggered = 1
    /\ Len(sel_inflight) = 1

\* C19: cancel_selection returns Ok and leaves the default state, so a
\* second cancel_selection leaves the state the first one left; end_drag
\* on an Idle session returns Ok(None), starts no capture and leaves the
\* state as it is.
C19_TerminatorsIdempotent ==
    [][/\ SelCalled("cancel_selection")
            => /\ sel_last'.kind = "ok"
               /\ sel_state' = DefaultSelectionState
               /\ sel_inflight' = sel_inflight
               /\ sel_last.op = "cancel_selection" => sel_state' = sel_state
       /\ (SelCalled("end_drag") /\ sel_state = DefaultSelectionState)
            => /\ sel_last'.kind = "ok_none"
               /\ sel_last'.captures = 0
               /\ UNCHANGED <<sel_state, sel_inflight>>]_vars

\* cancel_selection has just been applied a second time in a row.
C19_Witness ==
    /\ sel_last.op = "cancel_selection" /\ sel_last.kind = "ok"
    /\ sel_last.prev = "cancel_selection"
    /\ ~sel_last.was_selecting
    /\ sel_state = DefaultSelectionState

\* C20: update_mouse_position on an Idle session returns Ok and leaves
\* is_selecting, the anchor, the current point and the provisional bounds
\* as they are; and provisional bounds exist only while dragging.
C20_UpdateOutsideDragging ==
    [][/\ (SelCalled("update_mouse_position") /\ ~sel_state.is_selecting)
            => /\ sel_last'.kind = "ok"
               /\ sel_last'.captures = 0
               /\ UNCHANGED <<sel_state, sel_inflight>>
       /\ sel_state'.selection_bounds.some => sel_state'.is_selecting]_vars

\* update_mouse_position has just been called with a position on an Idle
\* session.
C20_Witness ==
    /\ sel_last.op = "update_mouse_position" /\ sel_last.kind = "ok"
    /\ sel_last.arg.some
    /\ ~sel_last.was_selecting
    /\ sel_state = DefaultSelectionState

(***************************************************************************)
(* Properties of the eviction order under hits                             *)
(***************************************************************************)

\* C21: eviction goes by capture age and not by access.  A hit leaves
\* every entry's captured_at as it was; when an insertion evicts an entry
\* that was never hit, it also evicts (or replaces) every entry captured
\* earlier, hit or not; and an entry that is at least the TTL old is not
\* served as a hit however often it was hit before.
C21_EvictionByAge ==
    [][\A b \in RequestBounds :
          ImgCalled("capture", b)
          => /\ img_last'.check = "hit"
                  => \A k \in DOMAIN cache :
                        /\ k \in DOMAIN cache'
                        /\ cache'[k].captured_at = cache[k].captured_at
             /\ \A h \in img_hits \cap DOMAIN cache :
                   \A k \in ((DOMAIN cache) \ img_hits) \ {b} :
                       (cache[k].captured_at > cache[h].captured_at
                            /\ k \notin DOMAIN cache')
                        => (h \notin DOMAIN cache' \/ h = b)
             /\ (b \in img_hits /\ b \in DOMAIN cache
                     /\ now - cache[b].captured_at >= CacheTtl)
                  => img_last'.check = "expired"]_vars

\* An insertion has just evicted an entry that had been hit and spared an
\* entry captured later that was never hit.
C21_Witness ==
    /\ img_last.op = "capture" /\ img_last.kind = "ok" /\ img_last.raster = 1
    /\ \E e \in img_evicted :
          /\ e.hit
          /\ \E k \in (DOMAIN cache) \ {img_last.key} :
                /\ k \notin img_hits
                /\ cache[k].captured_at > e.captured_at

(***************************************************************************)
(* Properties of the sweeps of both caches                                 *)
(***************************************************************************)

\* The entries of the two caches whose TTL has elapsed
ExpiredImages == {k \in DOMAIN cache : now - cache[k].captured_at >= CacheTtl}
ExpiredPermissions == {p \in DOMAIN perm_cache : now >= perm_cache[p].expires_at}

\* This step is a cleanup_expired of the image cache and it removes the
\* expired entries and keeps the others as they are.
ImageSweepExact ==
    /\ DOMAIN cache' = (DOMAIN cache) \ ExpiredImages
    /\ \A k \in DOMAIN cache' : cache'[k] = cache[k]

PermissionSweepExact ==
    /\ DOMAIN perm_cache' = (DOMAIN perm_cache) \ ExpiredPermissions
    /\ \A p \in DOMAIN perm_cache' : perm_cache'[p] = perm_cache[p]

\* C22 as claimed: cleanup_expired of either cache removes exactly the
\* entries whose TTL has elapsed and returns the number of entries it
\* removed to its caller.
C22_CleanupReportsCount ==
    [][/\ ImgCalled("cleanup", NoBounds)
            => /\ ImageSweepExact
               /\ img_last'.reported =
                     [some |-> TRUE, count |-> Cardinality(ExpiredImages)]
       /\ (perm_last'.seq # perm_last.seq /\ perm_last'.op = "cleanup")
            => /\ PermissionSweepExact
               /\ perm_last'.reported =
                     [some |-> TRUE, count |-> Cardinality(ExpiredPermissions)]]_vars

\* C22 amended: cleanup_expired of either cache removes exactly the entries
\* whose TTL has elapsed (age >= 30 s for an image, now >= expires_at for a
\* permission) and keeps the others unchanged; it counts the removed
\* entries, and that count is only printed: nothing is returned to the
\* caller.
C22_CleanupSweeps ==
    [][/\ ImgCalled("cleanup", NoBounds)
            => /\ ImageSweepExact
               /\ img_last'.removed = Cardinality(ExpiredImages)
               /\ img_last'.reported = NoCount
       /\ (perm_last'.seq # perm_last.seq /\ perm_last'.op = "cleanup")
            => /\ PermissionSweepExact
               /\ perm_last'.removed = Cardinality(ExpiredPermissions)
               /\ perm_last'.reported = NoCount]_vars

\* Both caches have been swept, and each sweep removed an entry and kept
\* another.
C22_Witness ==
    /\ img_last.op = "cleanup" /\ img_last.removed > 0 /\ cache # << >>
    /\ perm_last.op = "cleanup" /\ perm_last.removed > 0 /\ perm_cache # << >>

(***************************************************************************)
(* Properties of clear on both caches                                      *)
(***************************************************************************)

\* This step is a PermissionCache call of operation op.
PermStep(op) == perm_last'.seq # perm_last.seq /\ perm_last'.op = op

\* C23: clear_cache empties the cache whatever it holds; the statistics
\* taken right after it report no entries; and the request made right
\* after it, for any key, is not served from the cache: a permission check
\* runs the native probe, and a capture finds no entry and, when it
\* returns Ok, has called the rasterizer.
C23_ClearEmpties ==
    [][/\ ImgCalled("clear", NoBounds) => cache' = << >>
       /\ (ImgCalled("stats", NoBounds) /\ img_last.op = "clear")
            => img_last'.stats = <<0, 0, 0>>
       /\ \A b \in RequestBounds :
             (ImgCalled("capture", b) /\ img_last.op = "clear")
              => /\ img_last'.check = "absent"
                 /\ img_last'.raster <= 1
                 /\ img_last'.kind = "ok" => img_last'.raster = 1
       /\ PermStep("clear") => perm_cache' = << >>
       /\ (PermStep("stats") /\ perm_last.op = "clear")
            => perm_last'.stats = <<0, 0>>
       /\ (PermStep("check") /\ perm_last.op = "clear")
            => /\ perm_last'.check = "absent"
               /\ perm_last'.probes = 1]_vars

\* In both caches a key that was fresh when clear removed it has just been
\* asked for again, and the rasterizer and the native probe were called.
C23_Witness ==
    /\ img_last.op = "capture" /\ img_last.key \in img_wiped
    /\ img_last.check = "absent" /\ img_last.kind = "ok" /\ img_last.raster = 1
    /\ perm_last.op = "check" /\ perm_last.perm \in perm_wiped
    /\ perm_last.check = "absent" /\ perm_last.probes = 1

(***************************************************************************)
(* Properties of the permission records                                    *)
(***************************************************************************)

\* Every record of the permission cache belongs to one of the three kinds
\* and expires one TTL after it was checked.
PermRecordsWellFormed ==
    /\ DOMAIN perm_cache \subseteq Permissions
    /\ Cardinality(DOMAIN perm_cache) <= 3
    /\ \A p \in DOMAIN perm_cache :
          perm_cache[p].expires_at = perm_cache[p].checked_at + DefaultTtl

\* C25: the permission cache always holds at most one record per kind, at
\* most three in all, each with expires_at = checked_at + 300; a check
\* that runs the probe leaves for its kind exactly the record (result of
\* the probe, now, now + 300) and leaves the records of the other kinds as
\* they were; a check served from the cache changes no record.
C25_RecordIntegrity ==
    /\ []PermRecordsWellFormed
    /\ [][\A perm \in Permissions :
             (PermStep("check") /\ perm_last'.perm = perm)
              => /\ \A p \in Permissions \ {perm} :
                       /\ p \in DOMAIN perm_cache' <=> p \in DOMAIN perm_cache
                       /\ p \in DOMAIN perm_cache => perm_cache'[p] = perm_cache[p]
                 /\ IF perm_last'.probes = 1
                    THEN /\ perm \in DOMAIN perm_cache'
                         /\ perm_cache'[perm] = [granted |-> perm_last'.granted,
                                                 checked_at |-> now,
                                                 expires_at |-> now + DefaultTtl]
                    ELSE perm_cache' = perm_cache]_vars

\* A check has just replaced the expired record of its kind while the
\* record of another kind, checked earlier, is still there.
C25_Witness ==
    /\ perm_last.op = "check" /\ perm_last.check = "expired" /\ perm_last.probes = 1
    /\ perm_last.perm \in DOMAIN perm_cache
    /\ perm_cache[perm_last.perm].checked_at = now
    /\ \E p \in (DOMAIN perm_cache) \ {perm_last.perm} : perm_cache[p].checked_at < now

(***************************************************************************)
(* Properties of hide and of failed overlay calls                          *)
(***************************************************************************)

\* The fields of the pool and the application's windows stay as they are.
PoolUnchanged ==
    UNCHANGED <<overlay_window, is_active, last_used, app_windows, next_window>>

\* C26: hide_overlay never drops or replaces the handle and never destroys
\* or builds a window; when the pool holds a surface and hide returns Ok,
\* the window is hidden and is_active is false; when the pool holds no
\* surface, hide returns Ok and changes nothing; and a hide that follows a
\* successful hide changes nothing.
C26_HideRetains ==
    [][OvCalled("hide")
        => /\ overlay_window' = overlay_window
           /\ last_used' = last_used
           /\ next_window' = next_window
           /\ DOMAIN app_windows' = DOMAIN app_windows
           /\ \A l \in DOMAIN app_windows : app_windows'[l].id = app_windows[l].id
           /\ (overlay_window.some /\ ov_last'.kind = "ok")
                => /\ ~is_active'
                   /\ OverlayLabel \in DOMAIN app_windows'
                   /\ app_windows'[OverlayLabel] =
                         [id |-> overlay_window.id, visible |-> FALSE]
           /\ ~overlay_window.some => (ov_last'.kind = "ok" /\ PoolUnchanged)
           /\ (ov_last.op = "hide" /\ ov_last.kind = "ok" /\ ov_last'.kind = "ok")
                => PoolUnchanged]_vars

\* A hide has just hidden the surface the pool holds, which is still there.
C26_Witness ==
    /\ ov_last.op = "hide" /\ ov_last.kind = "ok"
    /\ overlay_window.some /\ ~is_active /\ last_used.some
    /\ OverlayLabel \in DOMAIN app_windows
    /\ app_windows[OverlayLabel] = [id |-> overlay_window.id, visible |-> FALSE]

\* The errors that come from the windowing toolkit refusing a call
ToolkitFailures == {"Failed to create React overlay", "Failed to show overlay",
                    "Failed to hide overlay"}

\* C27: a show or hide that returns an error leaves the handle, is_active,
\* last_used and the windows as they were, a failed creation leaves the
\* pool without handle and not active, and the show that follows a failed
\* call succeeds unless the toolkit refuses again.
C27_SurfaceErrorsSafe ==
    [][/\ ((OvCalled("show") \/ OvCalled("hide")) /\ ov_last'.kind # "ok")
            => /\ PoolUnchanged
               /\ ov_last'.creates = 1 => (~overlay_window'.some /\ ~is_active')
       /\ (OvCalled("show") /\ ov_last.kind \notin {"ok", "none"})
            => ov_last'.kind \in {"ok"} \cup ToolkitFailures]_vars

(***************************************************************************)
(* Properties of the overlay surface under all overlay commands            *)
(***************************************************************************)

\* At most one overlay window was ever built, it is the only window, and a
\* handle the pool holds is the handle of that window.
OneSurface ==
    /\ next_window <= 2
    /\ DOMAIN app_windows \subseteq {OverlayLabel}
    /\ overlay_window.some
          => /\ OverlayLabel \in DOMAIN app_windows
             /\ app_windows[OverlayLabel].id = overlay_window.id

\* C28: under show, hide, idle reclaim and the two commands that go around
\* the pool there is never more than one overlay window; a window is built
\* only when no window of the label exists and the pool holds none; no
\* step other than an idle reclaim of a pool that is not active destroys
\* the window or drops the pool's handle.
C28_AtMostOneSurface ==
    /\ []OneSurface
    /\ [][/\ next_window' # next_window
               => /\ OverlayLabel \notin DOMAIN app_windows
                  /\ ~overlay_window.some
                  /\ next_window' = next_window + 1
          /\ ((OverlayLabel \in DOMAIN app_windows /\ OverlayLabel \notin DOMAIN app_windows')
                 \/ (overlay_window.some /\ overlay_window' # overlay_window))
               => /\ OvCalled("cleanup")
                  /\ ~is_active
                  /\ last_used.some /\ now - last_used.at > IdleThreshold]_vars

\* The command that goes around the pool has just been refused a second
\* window while the pool holds the surface.
C28_Witness ==
    /\ ov_last.op = "create" /\ ov_last.kind # "ok"
    /\ overlay_window.some
    /\ OverlayLabel \in DOMAIN app_windows
    /\ app_windows[OverlayLabel].id = overlay_window.id
    /\ next_window = 2

(***************************************************************************)
(* Properties of the image cache under parallel callers                    *)
(***************************************************************************)

\* The callers that are inside capture_optimized
InsideCache == {c \in Callers : img_callers[c].pc \in {"lookup", "capture"}}

\* Every caller has returned Ok and all of them asked for the same bounds.
AllServedSameBounds ==
    /\ \A c \in Callers : img_callers[c].pc = "done" /\ img_callers[c].kind = "ok"
    /\ \A c, d \in Callers : img_callers[c].bounds = img_callers[d].bounds

\* Only the holder of the lock is inside, and callers that were all served
\* the same bounds share one rasterizer call and its payload.
OneInsideOneCapture ==
    /\ \A c \in InsideCache : img_lock = c
    /\ AllServedSameBounds
         => /\ Cardinality({c \in Callers : img_callers[c].raster = 1}) = 1
            /\ \A c \in Callers :
                  /\ BoundsKeyFrom(img_callers[c].bounds) \in DOMAIN cache
                  /\ img_callers[c].data = cache[BoundsKeyFrom(img_callers[c].bounds)].data

\* C29: a caller is inside capture_optimized only while it holds the lock,
\* so at most one is; while a caller holds the lock no step of another
\* caller changes the cache or the screen info; and when all the parallel
\* callers asked for the same bounds on the empty cache and all returned
\* Ok, exactly one of them called the rasterizer and all of them returned
\* the same payload, the one that is cached.
C29_AtomicCacheOps ==
    /\ []OneInsideOneCapture
    /\ [][(img_lock # 0 /\ <<cache, screen_info>>' # <<cache, screen_info>>)
             => img_callers'[img_lock].pc # img_callers[img_lock].pc]_vars

\* Two callers asked for the same bounds on the empty cache, the second
\* while the call of the first was in progress; the first called the
\* rasterizer and the second was served its payload from the cache.
C29_Witness ==
    /\ AllServedSameBounds
    /\ img_callers[2].overlap
    /\ img_callers[1].check = "absent" /\ img_callers[1].raster = 1
    /\ img_callers[2].check = "hit" /\ img_callers[2].raster = 0
    /\ img_callers[2].data = img_callers[1].data

(***************************************************************************)
(* Properties of the return to Idle                                        *)
(***************************************************************************)

\* A session that is not selecting is the default state.
IdleIsCleared == ~sel_state.is_selecting => sel_state = DefaultSelectionState

\* C30: a session that is not selecting holds no anchor, no current point
\* and no provisional bounds; the locked block of end_drag leaves it so
\* whatever the call goes on to return (a selection, a below-minimum
\* cancellation, nothing, or a capture error), and so does
\* cancel_selection; the return of end_drag after its capture touches
\* nothing of the session; and a start_drag leaves exactly its own anchor,
\* whatever the session held before.
C30_ReturnsToIdle ==
    /\ []IdleIsCleared
    /\ [][/\ (SelCalled("end_drag") \/ SelCalled("cancel_selection"))
               => sel_state' = DefaultSelectionState
          /\ EndDragReturned => sel_state' = sel_state
          /\ SelCalled("start_drag")
               => sel_state' = [is_selecting |-> TRUE, start_pos |-> sel_last'.arg,
                                current_pos |-> NoPos,
                                selection_bounds |-> NoSelBounds]]_vars

\* An end_drag has just returned a capture error and the session is Idle
\* and cleared, after a gesture that had an anchor and provisional bounds.
C30_Witness ==
    /\ sel_last.op = "end_drag" /\ sel_last.kind = "Failed to capture selection"
    /\ sel_last.captures = 1 /\ sel_last.request # NoBounds
    /\ sel_state = DefaultSelectionState

(***************************************************************************)
(* Properties of expiry accounting                                         *)
(***************************************************************************)

\* The entries that the cache check of capture_optimized treats as expired
LookupExpired == {k \in DOMAIN cache : ~CacheFresh(cache[k])}

\* C31: the expired count that get_cache_stats returns is the number of
\* entries that a lookup at that instant treats as expired, which is the
\* number of entries that cleanup_expired would remove at that instant (an
\* entry exactly TTL old included); get_cache_stats modifies nothing.
C31_ExpiryAccounting ==
    [][ImgCalled("stats", NoBounds)
          => /\ LookupExpired = ExpiredImages
             /\ img_last'.stats[3] = Cardinality(LookupExpired)
             /\ img_last'.stats[3] = Cardinality(ExpiredImages)
             /\ cache' = cache
             /\ screen_info' = screen_info]_vars

(***************************************************************************)
(* Properties of lazy expiry                                               *)
(***************************************************************************)

\* This step is a call of operation op of the image cache, on any key.
ImgStep(op) == img_last'.seq # img_last.seq /\ img_last'.op = op

\* The record of key k (of permission p) is in the cache after this step
\* as it was before it.
ImageKept(k) == k \in DOMAIN cache' /\ cache'[k] = cache[k]
PermissionKept(p) == p \in DOMAIN perm_cache' /\ perm_cache'[p] = perm_cache[p]

\* C32: expiry is lazy.  A statistics call changes no record and counts
\* every record, expired or not, in its total; the expired count of the
\* permission cache is the number of records with expires_at <= now.  A
\* lookup changes no record but the one looked up.  Whatever the step, a
\* record leaves the cache or changes only when a check or capture of its
\* own key replaces it (or removes it, expired, before a capture that
\* fails), when cleanup_expired or clear runs, or when add_to_cache evicts
\* it; the passing of time alone removes nothing.
C32_LazyExpiry ==
    [][/\ ImgStep("stats")
            => /\ cache' = cache
               /\ img_last'.stats[1] = Cardinality(DOMAIN cache)
       /\ PermStep("stats")
            => /\ perm_cache' = perm_cache
               /\ perm_last'.stats = <<Cardinality(DOMAIN perm_cache),
                                       Cardinality(ExpiredPermissions)>>
       /\ (ImgStep("capture") /\ img_last'.check = "hit") => cache' = cache
       /\ (PermStep("check") /\ perm_last'.check = "hit") => perm_cache' = perm_cache
       /\ \A k \in DOMAIN cache :
             \/ ImageKept(k)
             \/ ImgStep("capture") /\ img_last'.check # "hit"
                  /\ (k = img_last'.key \/ k \in img_last'.evicted)
             \/ ImgStep("cleanup") /\ k \in ExpiredImages
             \/ ImgStep("clear")
       /\ \A p \in DOMAIN perm_cache :
             \/ PermissionKept(p)
             \/ PermStep("check") /\ perm_last'.check = "expired" /\ p = perm_last'.perm
             \/ PermStep("cleanup") /\ p \in ExpiredPermissions
             \/ PermStep("clear")]_vars

\* Statistics of both caches have been taken while each held an expired
\* record: the permission cache held a record at the very instant it
\* expired beside a fresh one, and counted two records, one expired.
C32_Witness ==
    /\ perm_last.op = "stats" /\ perm_last.stats = <<2, 1>>
    /\ \E p \in DOMAIN perm_cache : perm_cache[p].expires_at = now
    /\ img_last.op = "stats" /\ img_last.stats[1] >= 1
    /\ LookupExpired # {}

(***************************************************************************)
(* Properties of idle reclaim                                              *)
(***************************************************************************)

\* The guard of idle reclaim: a surface is held, it is not active, and more
\* than the threshold has elapsed since last_used.
ReclaimGuard ==
    /\ overlay_window.some
    /\ ~is_active
    /\ last_used.some /\ now - last_used.at > IdleThreshold

\* The surface the pool held before this step is destroyed by it: the pool
\* holds no handle and the application holds no window of the label.
SurfaceDestroyed ==
    /\ overlay_window.some
    /\ ~overlay_window'.some
    /\ OverlayLabel \notin DOMAIN app_windows'

\* C33: cleanup_if_old destroys the surface exactly when the guard holds,
\* and otherwise leaves the pool and its window as they are; last_used is
\* written only by a successful show, which sets it to the present, and is
\* left alone by hide.
C33_ReclaimGuard ==
    [][/\ OvCalled("cleanup") =>
            /\ ReclaimGuard <=> SurfaceDestroyed
            /\ ~ReclaimGuard => UNCHANGED <<overlay_window, app_windows>>
       /\ last_used' # last_used =>
            /\ OvCalled("show") /\ ov_last'.kind = "ok"
            /\ last_used' = [some |-> TRUE, at |-> now]
       /\ OvCalled("hide") => last_used' = last_used]_vars

(***************************************************************************)
(* Properties of the selection flow                                        *)
(***************************************************************************)

\* The last command was a process_screen_selection_optimized that obtained
\* image data and returned.
SelectionCaptured ==
    /\ coord_last.op = "process_screen_selection_optimized"
    /\ coord_last.kind = "ok"
    /\ coord_last.success

\* The pool's hide has taken effect: the pool is not active and its window,
\* if it holds one, is not visible.
OverlayHidden ==
    /\ ~is_active
    /\ overlay_window.some =>
          /\ OverlayLabel \in DOMAIN app_windows
          /\ ~app_windows[OverlayLabel].visible

\* C34: when process_screen_selection_optimized has obtained image data
\* and returned, the overlay is hidden.  The command leaves no work behind
\* it (no task is spawned and no future is kept), so what holds when it
\* returns is what holds until the next command: "eventually afterwards"
\* has nothing to wait for, and the claim is the state at the return.
C34_HiddenAfterCapture == SelectionCaptured => OverlayHidden

(***************************************************************************)
(* Properties of the interactive selection                                 *)
(***************************************************************************)

\* C35: once start_interactive_selection has shown the overlay and waits
\* for the result, the call eventually returns.
C35_SelectionTerminates == (ix_call.pc = "waiting") ~> (ix_call.pc = "returned")

(***************************************************************************)
(* Properties of panics under the cache locks                              *)
(***************************************************************************)

\* No Mutex of the shared caches is poisoned.
NeverPoisoned == lk_poisoned = {}

\* C36: no command of the image cache or of the permission cache panics,
\* whatever the size of the bounds it is given, so the shared lock is
\* never poisoned and no later request fails on it.
C36_CacheStaysUsable ==
    /\ []NeverPoisoned
    /\ [][coord_last'.seq # coord_last.seq => coord_last'.kind # "panic"]_vars

(***************************************************************************)
(* Properties of the eviction amount                                       *)
(***************************************************************************)

\* This step is a capture_optimized that inserted a payload.
Inserted == ImgStep("capture") /\ img_last'.kind = "ok" /\ img_last'.raster = 1

\* The cache that add_to_cache found: the cache before the call without
\* the expired entry of the requested key, which step 1 removed.
BeforeInsertion == RemoveKeys(cache, {img_last'.key})

\* C37: an insertion of size s evicts exactly when the total plus s
\* exceeds max_cache_size, and then removes entries until the bytes freed
\* are at least s or the cache is empty, and no more: without the youngest
\* evicted entry the bytes freed are below s.  Hence, when some entry
\* survives the eviction, the total after the insertion does not exceed the
\* total before it.
C37_EvictionAmount ==
    [][Inserted =>
          LET before == BeforeInsertion
              s == img_last'.data.len
              evicted == img_last'.evicted
              freed == SumSizes(before, evicted)
              survivors == (DOMAIN before) \ evicted
          IN  /\ evicted # {} <=> (before # << >> /\ GetTotalCacheSize(before) + s > MaxCacheSize)
              /\ evicted # {} =>
                    /\ freed >= s \/ survivors = {}
                    /\ \E e \in evicted :
                          /\ \A d \in evicted : before[d].captured_at <= before[e].captured_at
                          /\ freed - before[e].size_bytes < s
                    /\ survivors # {} =>
                          GetTotalCacheSize(cache') <= GetTotalCacheSize(before)]_vars

\* An insertion has just evicted an entry and spared another, and it freed
\* more than the overflow: the total is now below the limit.
C37_Witness ==
    /\ img_last.op = "capture" /\ img_last.kind = "ok" /\ img_last.raster = 1
    /\ img_last.evicted # {}
    /\ (DOMAIN cache) \ {img_last.key} # {}
    /\ GetTotalCacheSize(cache) < MaxCacheSize

(***************************************************************************)
(* Properties of the process-wide locks                                    *)
(***************************************************************************)

\* The locks caller c holds
HeldBy(c) == {l \in Locks : lk_holder[l] = c}

\* Caller c is at a lock() of a Mutex that somebody holds.
Blocked(c) == NextOp(c).op = "lock" /\ lk_holder[NextOp(c).lock] # 0

\* No caller holds two of the locks at once.
AtMostOneLock == \A c \in Callers : Cardinality(HeldBy(c)) <= 1

\* Whoever holds the lock a blocked caller waits for is not blocked itself,
\* and is another caller: its next operation can be done at once.
NoWaitCycle ==
    \A c \in Callers :
        Blocked(c) => /\ lk_holder[NextOp(c).lock] # c
                      /\ ~Blocked(lk_holder[NextOp(c).lock])

\* C38: no command holds two of the process-wide locks at the same time
\* (each is released before another is acquired), and no interleaving of
\* parallel commands deadlocks on them: the holder of a lock that somebody
\* waits for is never waiting itself.
C38_NoLockNesting == AtMostOneLock /\ NoWaitCycle

\* A caller waits for the lock that save_app_state holds for the second
\* time, while that command goes on.
C38_Witness ==
    \E c, d \in Callers :
        /\ Blocked(c) /\ lk_holder[NextOp(c).lock] = d
        /\ lk_callers[d] = [cmd |-> "save_app_state", at |-> 4]

(***************************************************************************)
(* Well-formedness of the selection state                                  *)
(***************************************************************************)

\* The provisional bounds that the anchor and the current point span
SpannedBounds ==
    LET b == CalculateBounds(sel_state.start_pos, sel_state.current_pos)
    IN  [some |-> TRUE, x |-> b.x, y |-> b.y, width |-> b.width, height |-> b.height]

\* C39: in every state of the session, is_selecting = false implies that
\* start_pos, current_pos and selection_bounds are None; is_selecting =
\* true implies that start_pos is Some; and selection_bounds is Some only
\* when start_pos and current_pos are Some, and is then
\* calculate_bounds(start_pos, current_pos).
C39_SelectionWellFormed ==
    /\ ~sel_state.is_selecting
          => /\ ~sel_state.start_pos.some
             /\ ~sel_state.current_pos.some
             /\ ~sel_state.selection_bounds.some
    /\ sel_state.is_selecting => sel_state.start_pos.some
    /\ sel_state.selection_bounds.some
          => /\ sel_state.start_pos.some
             /\ sel_state.current_pos.some
             /\ sel_state.selection_bounds = SpannedBounds

\* A gesture is under way whose current point lies left of and above its
\* anchor, with the bounds the two points span.
C39_Witness ==
    /\ sel_state.is_selecting
    /\ sel_state.selection_bounds.some
    /\ sel_state.current_pos.x < sel_state.start_pos.x
    /\ sel_state.current_pos.y < sel_state.start_pos.y
    /\ sel_state.selection_bounds.width > 0
    /\ sel_last.op = "update_mouse_position"

(***************************************************************************)
(* Well-formedness of the overlay manager                                  *)
(***************************************************************************)

\* C40: in every state of the overlay manager, is_active = true implies
\* that a surface handle is held, a held handle implies that last_used is
\* set, and without a handle is_active is false, so that is_overlay_active
\* never answers true for a surface that was reclaimed or never created.
C40_ManagerWellFormed ==
    /\ is_active => overlay_window.some
    /\ overlay_window.some => last_used.some
    /\ ~overlay_window.some => ~is_active

\* The surface has just been reclaimed: the manager holds no handle, is not
\* active and still knows when the surface was last used.
C40_Witness ==
    /\ ov_last.op = "cleanup" /\ ov_last.old
    /\ ~overlay_window.some
    /\ last_used.some
    /\ ~is_active

====
